---- MODULE Spec2Model ----
(***************************************************************************)
(* A model of the Airtable <-> Jira synchronisation batch                  *)
(* (main_controller.py, phase1_jira_to_airtable.py,                        *)
(* phase2_airtable_to_jira.py, phase3_two_way_sync.py, common_utils.py).   *)
(*                                                                         *)
(* The two remote stores are state variables; one run of main_logic is a   *)
(* sequence of steps: the snapshot fetch, one step per item of each loop   *)
(* of build_initial_mappings, run_phase1, run_phase2 and run_phase3, the   *)
(* sprint chunk, and the report.  Runs may follow each other.              *)
(*                                                                         *)
(* Python strings are modelled by structured values:                       *)
(*   - a title is a sequence of word tokens;                               *)
(*   - a description is a sequence of lines, each [kind, val, arg];        *)
(*   - a comment body is the sequence of sync tags it contains;            *)
(*   - a timestamp text is a record read by the parse operators below.     *)
(* Python's None is the string "None".                                     *)
(***************************************************************************)
EXTENDS Integers, Sequences, FiniteSets, TLC

None == "None"

\* ------------------------------------------------------------------ bounds

\* Number of runs of main_logic in one behaviour.
MaxRuns == 2
\* Number of remote calls that may fail in one behaviour.
MaxFaults == 1
\* Number of invocations where the stores are followed until they settle.
QuiesceRuns == 3

\* ------------------------------------------------- configuration (common_utils)

AIRTABLE_HEADLINE_FIELD == "Full Name"
AIRTABLE_STATUS_FIELD == "Status"
AIRTABLE_EXPERIMENT_ID_FIELD == "Experiment ID"
AIRTABLE_TEST_ID_FIELD == "Test ID"
AIRTABLE_JIRA_KEY_FIELD == "Jira Key"
AIRTABLE_JIRA_URL_FIELD == "Jira URL"
\* Read by phase1 and phase3 but declared nowhere in common_utils.py: taken as
\* configured field names, as the specification describes them.
AIRTABLE_IDEA_NAME_FIELD == "Idea Name"
AIRTABLE_LAST_MODIFIED_FIELD_NAME == "Last Updated At"

\* AIRTABLE_STATUSES_FOR_JIRA_CREATION as the environment sets it: the default
\* label and one STATUS_MAPPING_AIRTABLE_TO_JIRA has no entry for.
AIRTABLE_STATUSES_FOR_JIRA_CREATION_LIST == {"Idea: Evaluated", "Parked"}
JIRA_CRO_INTAKE_FORM_KEY == "PROJ-7"
JIRA_NEW_ISSUE_STATUS == "Backlog"
JIRA_NOT_EVALUATED_PREFIX_CONST == "[NOT EVALUATED]"

STATUS_MAPPING_AIRTABLE_TO_JIRA ==
    << <<"Idea: Evaluated", "Backlog">>, <<"Idea: Planning", "Plan">>,
       <<"Deploy: Design/Configure/Dev", "Build">>, <<"Build: QA", "Deploy">>,
       <<"Monitor", "Test in progress">>,
       <<"Learn: Analysis>Recs>Act", "Test completed">>,
       <<"Finalised", "Closed">>, <<"Idea: Backlog", "Backlog">> >>

\* An inverse whose override picks the other label mapped to "Backlog".
InverseOverriddenToEvaluated ==
    [i \in 1..Len(STATUS_MAPPING_AIRTABLE_TO_JIRA) |->
        <<STATUS_MAPPING_AIRTABLE_TO_JIRA[i][2], STATUS_MAPPING_AIRTABLE_TO_JIRA[i][1]>>]
    \o << <<"Backlog", "Idea: Evaluated">> >>

\* {v: k for k, v in ...items()} followed by the "Backlog" override: a later
\* assignment to the same key replaces the earlier one.
STATUS_MAPPING_JIRA_TO_AIRTABLE ==
    [i \in 1..Len(STATUS_MAPPING_AIRTABLE_TO_JIRA) |->
        <<STATUS_MAPPING_AIRTABLE_TO_JIRA[i][2], STATUS_MAPPING_AIRTABLE_TO_JIRA[i][1]>>]
    \o << <<"Backlog", "Idea: Backlog">> >>

\* dict.get(k) on a dict built by assigning the pairs in order.
DictGet(pairs, k) ==
    LET hits == {i \in 1..Len(pairs) : pairs[i][1] = k}
    IN  IF hits = {} THEN None
        ELSE pairs[CHOOSE i \in hits : \A j \in hits : j <= i][2]

METADATA_BLOCK_HEADER == "--- Airtable Sync Metadata ---"

\* ----------------------------------------------------------- string helpers

\* str.lower() on the status labels and sprint names that occur.
LowerTable ==
    { <<"Backlog", "backlog">>, <<"BACKLOG", "backlog">>, <<"Plan", "plan">>,
      <<"Build", "build">>, <<"Deploy", "deploy">>,
      <<"Test in progress", "test in progress">>,
      <<"Test completed", "test completed">>, <<"Closed", "closed">>,
      <<"Triage", "triage">>,
      <<"Idea: Evaluated", "idea: evaluated">>, <<"Idea: Planning", "idea: planning">>,
      <<"Deploy: Design/Configure/Dev", "deploy: design/configure/dev">>,
      <<"Build: QA", "build: qa">>, <<"Monitor", "monitor">>,
      <<"Learn: Analysis>Recs>Act", "learn: analysis>recs>act">>,
      <<"Finalised", "finalised">>, <<"Idea: Backlog", "idea: backlog">>,
      <<"idea: backlog", "idea: backlog">>, <<"Parked", "parked">>,
      <<"W2", "w2">>, <<"w2", "w2">>, <<"W10", "w10">>, <<"w10", "w10">> }

Lower(s) == (CHOOSE p \in LowerTable : p[1] = s)[2]

\* str.strip() on the cross-reference texts that occur.
Strip(s) ==
    CASE s = " PROJ-8 " -> "PROJ-8"
      [] s = " " -> ""
      [] OTHER -> s

\* A key test that every text passes.
MatchesAnyText(s) == TRUE

\* re.match(r"^[A-Z][A-Z0-9]+-\d+$", s) on the texts that occur.
MatchesKeyPattern(s) ==
    s \in {"PROJ-7", "PROJ-8", "PROJ-9", "PROJ-101", "PROJ-102", "PROJ-103", "PROJ-104"}

\* Word tokens that match W\d+T\d+ (case-insensitive), with their upper case.
ExpTokenTable == { <<"W2T3", "W2T3">>, <<"w2t3", "W2T3">>, <<"W10T1", "W10T1">> }

IsExpToken(w) == \E p \in ExpTokenTable : p[1] = w

\* get_experiment_wxx_txx_id: the first match in the text, upper-cased.
get_experiment_wxx_txx_id(title) ==
    LET hits == {i \in 1..Len(title) : IsExpToken(title[i])}
    IN  IF hits = {} THEN None
        ELSE LET i == CHOOSE i \in hits : \A j \in hits : i <= j
             IN  (CHOOSE p \in ExpTokenTable : p[1] = title[i])[2]

\* wxx_id.split('T')[0]
SprintNameOf(wxx) ==
    CASE wxx = "W2T3" -> "W2"
      [] wxx = "W10T1" -> "W10"

\* f"{PREFIX} {summary}"
WithPrefix(title) == <<JIRA_NOT_EVALUATED_PREFIX_CONST>> \o title

\* A prefix test that never finds the prefix.
StartsWithPrefixIgnored(title) == FALSE

\* summary.strip().startswith(PREFIX)
StartsWithPrefix(title) ==
    Len(title) > 0 /\ title[1] = JIRA_NOT_EVALUATED_PREFIX_CONST

\* Jira's "updated" text ('%Y-%m-%dT%H:%M:%S.%f%z') is [local, off]: the wall-clock
\* reading and its UTC offset; strptime yields the instant local - off.
ParseJiraTime(t) == t.local - t.off

\* Airtable's last-modified text is [local, iso]: datetime.fromisoformat of the
\* text without its 'Z', read as UTC; a text that is no ISO date (iso = FALSE)
\* raises ValueError and leaves airtable_updated_dt = None (-1 here).
ParseAirtableTime(t) == IF t.iso THEN t.local ELSE -1

\* The text each store writes for instant n.
JiraTimeText(n) == [local |-> n, off |-> 0]
AirtableTimeText(n) == [local |-> n, iso |-> TRUE]

\* dict.get(k)
Get(f, k) == IF k \in DOMAIN f THEN f[k] ELSE None

\* Python truthiness of a string field: present and not empty.
Truthy(v) == v # None /\ v # ""

\* d[k] = v on a dict d (a function) whose insertion order is kept apart.
\* A dict store that is lost.
PutIgnored(d, k, v) == d

Put(d, k, v) == (k :> v) @@ d

----
\* ------------------------------------------------------------ descriptions

TextLine(t) == [kind |-> "text", val |-> t, arg |-> ""]
BlankLine == [kind |-> "blank", val |-> "", arg |-> ""]
HeaderLine == [kind |-> "hdr", val |-> METADATA_BLOCK_HEADER, arg |-> ""]
\* f"{METADATA_REC_ID_PREFIX}{id}", f"{METADATA_EXP_ID_PREFIX}{e}", f"{METADATA_URL_PREFIX}{url}"
RecLine(id) == [kind |-> "rec", val |-> id, arg |-> ""]
ExpLine(e) == [kind |-> "exp", val |-> e, arg |-> ""]
UrlLine(id) == [kind |-> "url", val |-> id, arg |-> ""]

\* The n-th identifier each store hands out for a created object.
FreshRecordId(n) == "recNew" \o ToString(n)
FreshIssueKey(n) == "PROJ-10" \o ToString(n)

\* rec[a-zA-Z0-9]{14}: the table store's identifiers, not the dry-run placeholder.
IsRecordId(s) ==
    s \in {"recA", "recB", "recGone"} \cup {FreshRecordId(n) : n \in 1..9}

\* The least member of a set of line numbers, 0 when there is none
\* (re.search returns the first match).
FirstIndex(S) == IF S = {} THEN 0 ELSE CHOOSE i \in S : \A j \in S : i <= j

UpperExp(e) == (CHOOSE p \in ExpTokenTable : p[1] = e)[2]

\* Three independent line-anchored searches over the whole description.
parse_metadata_from_jira_description(desc) ==
    LET r == FirstIndex({i \in 1..Len(desc) : desc[i].kind = "rec" /\ IsRecordId(desc[i].val)})
        e == FirstIndex({i \in 1..Len(desc) : desc[i].kind = "exp" /\ IsExpToken(desc[i].val)})
        u == FirstIndex({i \in 1..Len(desc) : desc[i].kind = "url"})
    IN  [airtable_record_id |-> IF r = 0 THEN None ELSE desc[r].val,
         experiment_id |-> IF e = 0 THEN None ELSE UpperExp(desc[e].val),
         airtable_url |-> IF u = 0 THEN None ELSE desc[u].val]

\* AIRTABLE_TO_JIRA_DESC_TABLE_MAP, in iteration order: <<table field, header>>.
\* The field names come from the environment.
AIRTABLE_TO_JIRA_DESC_TABLE_MAP ==
    << <<"Observation", "1. Observation">>, <<"Idea", "2. Idea">>,
       <<"Hypothesis", "3. Hypothesis">>, <<"Country", "4. Country">>,
       <<"Page type", "5. Page type">>, <<"Primary metric", "6. Primary metric">>,
       <<"Secondary metrics", "7. Secondary metrics">>, <<"Platform", "8. Platform">>,
       <<"Device", "9. Device">>, <<"Vaimo comments", "10. Vaimo comments">>,
       <<"Sponsor comments", "11. Sponsor comments">>,
       <<"Other comments", "12. Other comments">>,
       <<"To do/needed", "13. To do/needed">>, <<"How to QA", "14. How to QA">>,
       <<"Type of Test", "15. Type of Test">> >>

AIRTABLE_COUNTRY_FIELD == "Country"

COUNTRY_ISO_TO_NAME ==
    << <<"BE", "Belgium">>, <<"RO", "Romania">>, <<"GR", "Greece">>,
       <<"CZ", "Czechia">>, <<"RS", "Serbia">> >>

\* value.replace("|", "\\|").replace("\n", " ") on the cell texts that occur.
SanitizeCell(v) ==
    CASE v = "a|b" -> "a\\|b"
      [] v = "two\nlines" -> "two lines"
      [] OTHER -> v

\* line.split('|')[2].strip() on a rendered row: the cell ends at its first '|'.
ParseCell(c) ==
    CASE c = "a\\|b" -> "a\\"
      [] c = " padded " -> "padded"
      [] OTHER -> c

RowLine(header, cell) == [kind |-> "row", val |-> header, arg |-> cell]

\* The Airtable field a row header maps back to (JIRA_DESC_TABLE_TO_AIRTABLE_MAP
\* and the "Airtable Test ID" special case), None for any other header.
FieldOfHeader(h) ==
    LET hits == {i \in 1..Len(AIRTABLE_TO_JIRA_DESC_TABLE_MAP) :
                    AIRTABLE_TO_JIRA_DESC_TABLE_MAP[i][2] = h}
    IN  IF hits # {} THEN AIRTABLE_TO_JIRA_DESC_TABLE_MAP[CHOOSE i \in hits : TRUE][1]
        ELSE IF h = "Airtable Test ID" THEN AIRTABLE_TEST_ID_FIELD
        ELSE None

\* COUNTRY_NAME_TO_ISO.get(raw_value, raw_value)
CountryToIso(v) ==
    LET hits == {i \in 1..Len(COUNTRY_ISO_TO_NAME) : COUNTRY_ISO_TO_NAME[i][2] = v}
    IN  IF hits = {} THEN v ELSE COUNTRY_ISO_TO_NAME[CHOOSE i \in hits : TRUE][1]

\* parse_jira_description_table_to_airtable_fields: every "| **Header** | Value |"
\* row with a known header sets its field; a later row replaces an earlier one;
\* any other line is skipped.
parse_jira_description_table_to_airtable_fields(desc) ==
    LET rows == {i \in 1..Len(desc) :
                    desc[i].kind = "row" /\ FieldOfHeader(desc[i].val) # None}
        names == {FieldOfHeader(desc[i].val) : i \in rows}
        last(n) == CHOOSE i \in rows : /\ FieldOfHeader(desc[i].val) = n
                                        /\ \A j \in rows :
                                              FieldOfHeader(desc[j].val) = n => j <= i
    IN  [n \in names |->
            IF n = AIRTABLE_COUNTRY_FIELD THEN CountryToIso(ParseCell(desc[last(n)].arg))
            ELSE ParseCell(desc[last(n)].arg)]

\* The metadata lines both renderers append after "\n" + "\n\n" + header.
MetadataBlock(rec_id, exp_id, with_url) ==
    <<BlankLine, BlankLine, HeaderLine>>
    \o (IF rec_id # None THEN <<RecLine(rec_id)>> ELSE <<>>)
    \o (IF exp_id # None /\ exp_id # "" THEN <<ExpLine(exp_id)>> ELSE <<>>)
    \o (IF with_url THEN <<UrlLine(rec_id)>> ELSE <<>>)

\* format_full_jira_description: the table rows of the field map, then the
\* metadata block of this record (linked-record lookups are not modelled: the
\* fields hold plain texts).
format_full_jira_description(airtable_record_id, airtable_fields) ==
    <<TextLine("| Problem or Opportunity | Answers (incl phase) |"),
      TextLine("| :--------------------- | :------------------- |")>>
    \o [i \in 1..Len(AIRTABLE_TO_JIRA_DESC_TABLE_MAP) |->
          RowLine(AIRTABLE_TO_JIRA_DESC_TABLE_MAP[i][2],
                  IF AIRTABLE_TO_JIRA_DESC_TABLE_MAP[i][1] \in DOMAIN airtable_fields
                  THEN SanitizeCell(airtable_fields[AIRTABLE_TO_JIRA_DESC_TABLE_MAP[i][1]])
                  ELSE "")]
    \o MetadataBlock(airtable_record_id,
                     Get(airtable_fields, AIRTABLE_EXPERIMENT_ID_FIELD),
                     airtable_record_id # None)

\* str.strip() on a description: no blank lines at either end.
RECURSIVE StripLines(_)
StripLines(d) ==
    IF d = <<>> THEN d
    ELSE IF d[1].kind = "blank" THEN StripLines(Tail(d))
    ELSE IF d[Len(d)].kind = "blank" THEN StripLines(SubSeq(d, 1, Len(d) - 1))
    ELSE d

\* run_phase1 step C: re.sub(r"\n\n<header>.*$", "", desc, flags=DOTALL).strip():
\* the text from the first header line that follows an empty line (itself
\* after a line break) to the end is removed.
StripMetadataBlock(desc) ==
    LET j == FirstIndex({i \in 3..Len(desc) :
                            desc[i].kind = "hdr" /\ desc[i - 1].kind = "blank"})
    IN  StripLines(IF j = 0 THEN desc ELSE SubSeq(desc, 1, j - 2))

\* run_phase1 step C: cleaned + "\n" + "\n".join(metadata_lines)
Phase1Description(desc, rec_id, exp_id) ==
    LET cleaned == StripMetadataBlock(desc)
    IN  (IF cleaned = <<>> THEN <<BlankLine>> ELSE cleaned)
        \o MetadataBlock(rec_id, exp_id, TRUE)

----
\* ------------------------------------------------------------------- state

VARIABLES
    cfg,                       \* DRY_RUN and the feature flags (common_utils, os.getenv)
    jira,                      \* the issue tracker: issues, newest first
    airtable,                  \* the table store: records
    jiraComments,              \* comments of the issues
    airtableComments,          \* comments of the records
    sprints,                   \* the board's sprints
    sprintIssues,              \* <<sprint id, issue key>> memberships
    noTransitionTo,            \* statuses no workflow transition leads to
    clock,                     \* the stores' time
    created,                   \* [rec, key, jc, ac, sprint]: objects created so far
    faultsLeft,                \* remote calls that may still fail
    runs,                      \* runs of main_logic started
    pc, idx,                   \* the step of the run, the loop index
    all_jira_issues,           \* the snapshot (and jira_issues_map_by_key)
    all_airtable_records,      \* the snapshot (and airtable_records_map_by_id)
    jira_key_to_airtable_id,
    key_order,                 \* insertion order of jira_key_to_airtable_id
    airtable_id_to_jira_key,
    overall_actions_log,
    actions_log,               \* the running phase's log
    action_details,            \* phase 3: the pair's record between its chunks
    issues_to_sprint,
    logged                     \* the log file: one event per logging call modelled

storeVars == <<jira, airtable, jiraComments, airtableComments, sprints, sprintIssues,
               noTransitionTo, clock, created>>
mapVars == <<jira_key_to_airtable_id, key_order, airtable_id_to_jira_key>>
snapVars == <<all_jira_issues, all_airtable_records>>
logVars == <<overall_actions_log, actions_log, action_details, issues_to_sprint, logged>>
vars == <<cfg, storeVars, faultsLeft, runs, pc, idx, snapVars, mapVars, logVars>>

EmptyMap == <<>>

Event(ev, key, id) == [ev |-> ev, key |-> key, id |-> id]

----
\* ------------------------------------------------------- Identity Resolver

\* A resolver without the first loop's conflict test: the later record wins.
KeyConflictIgnored(k2i, jira_key, record_id) == FALSE

\* build_initial_mappings, first loop: the conflict test on a cross-reference.
KeyConflict(k2i, jira_key, record_id) ==
    jira_key \in DOMAIN k2i /\ k2i[jira_key] # record_id

\* build_initial_mappings, first loop body: one TableRecord.
LinkFromCrossReference(k2i, order, i2k, record) ==
    LET jira_key_from_airtable == Get(record.fields, AIRTABLE_JIRA_KEY_FIELD)
        jira_key == Strip(jira_key_from_airtable)
        same == [k2i |-> k2i, order |-> order, i2k |-> i2k, log |-> <<>>]
    IN  IF Truthy(jira_key_from_airtable) /\ MatchesKeyPattern(jira_key)
        THEN IF KeyConflict(k2i, jira_key, record.id)
             THEN [same EXCEPT !.log = <<Event("conflict_key", jira_key, record.id)>>]
             ELSE [k2i |-> Put(k2i, jira_key, record.id),
                   order |-> IF jira_key \in DOMAIN k2i THEN order
                             ELSE Append(order, jira_key),
                   i2k |-> Put(i2k, record.id, jira_key),
                   log |-> <<>>]
        ELSE same

\* A resolver without the second loop's conflict test: the later issue wins.
IdConflictIgnored(i2k, rec_id, jira_key) == FALSE

\* build_initial_mappings, second loop: the conflict test on a recovered id.
IdConflict(i2k, rec_id, jira_key) ==
    rec_id \in DOMAIN i2k /\ i2k[rec_id] # jira_key

\* A second loop without its "already linked: continue" line: the metadata
\* block is read for every issue.
RelinkFromDescription(k2i, order, i2k, issue) ==
    LET jira_key == issue.key
        rec_id == parse_metadata_from_jira_description(issue.description).airtable_record_id
        same == [k2i |-> k2i, order |-> order, i2k |-> i2k, log |-> <<>>]
    IN  IF issue.description = <<>> \/ rec_id = None THEN same
        ELSE IF IdConflict(i2k, rec_id, jira_key)
             THEN [same EXCEPT !.log = <<Event("conflict_id", jira_key, rec_id)>>]
             ELSE [k2i |-> Put(k2i, jira_key, rec_id),
                   order |-> IF jira_key \in DOMAIN k2i THEN order
                             ELSE Append(order, jira_key),
                   i2k |-> Put(i2k, rec_id, jira_key),
                   log |-> <<Event("recovered", jira_key, rec_id)>>]

\* build_initial_mappings, second loop body: one ExternalRecord.
LinkFromDescription(k2i, order, i2k, issue) ==
    LET jira_key == issue.key
        rec_id == parse_metadata_from_jira_description(issue.description).airtable_record_id
        same == [k2i |-> k2i, order |-> order, i2k |-> i2k, log |-> <<>>]
    IN  IF jira_key \in DOMAIN k2i THEN same
        ELSE IF issue.description = <<>> \/ rec_id = None THEN same
        ELSE IF IdConflict(i2k, rec_id, jira_key)
             THEN [same EXCEPT !.log = <<Event("conflict_id", jira_key, rec_id)>>]
             ELSE [k2i |-> Put(k2i, jira_key, rec_id),
                   order |-> Append(order, jira_key),
                   i2k |-> Put(i2k, rec_id, jira_key),
                   log |-> <<Event("recovered", jira_key, rec_id)>>]

----
\* ------------------------------------------------------------ remote stores

\* The sets of remote calls (numbered 1..n within one step) that may fail now.
FaultSets(n) == {f \in SUBSET (1..n) : Cardinality(f) <= faultsLeft}

\* list/dict lookups on the snapshots and the stores
IndexOfKey(issues, key) == FirstIndex({i \in 1..Len(issues) : issues[i].key = key})
IndexOfId(records, id) == FirstIndex({i \in 1..Len(records) : records[i].id = id})

\* A tracker that drops every write.
JiraWriteLost(issues, key, changes, t) == issues

\* Issue.update(**changes) and transition_issue on the tracker at time t: the
\* fields change and "updated" becomes t.
JiraWrite(issues, key, changes, t) ==
    [i \in 1..Len(issues) |->
        IF issues[i].key = key
        THEN [f \in DOMAIN issues[i] |->
                 IF f = "updated" THEN JiraTimeText(t)
                 ELSE IF f \in DOMAIN changes THEN changes[f] ELSE issues[i][f]]
        ELSE issues[i]]

\* Table.update(id, changes) at time t: the fields change and the computed
\* last-modified field becomes t.
AirtableWrite(records, id, changes, t) ==
    [i \in 1..Len(records) |->
        IF records[i].id = id
        THEN [records[i] EXCEPT !.fields =
                 (AIRTABLE_LAST_MODIFIED_FIELD_NAME :> AirtableTimeText(t))
                 @@ changes @@ records[i].fields]
        ELSE records[i]]

\* A lookup that never finds a transition.
TransitionNeverFound(target, lookupFails) == None

\* find_jira_transition_id_by_name: a transition whose target is the status,
\* None when there is none or when the lookup raises a JIRAError.
find_jira_transition_id_by_name(target, lookupFails) ==
    IF lookupFails \/ \E s \in noTransitionTo : Lower(s) = Lower(target)
    THEN None ELSE target

\* jira_client.transitions raises something the helper's "except JIRAError"
\* does not catch (call number other), and not a JIRAError (call 2).
LookupRaises(f, other) == other \in f /\ 2 \notin f

----
\* -------------------------------------------------------------- main_logic

\* initialize_clients: the two clients, or None when the Airtable token is
\* missing (4) or the tracker login fails (1).
initialize_clients(f) == IF f \cap {1, 4} # {} THEN None ELSE "clients"

\* A main_logic that goes on without clients.
NoAccessIgnored(clients) == FALSE

\* main_logic: "if not jira_client_instance or not get_global_airtable_client()"
NoAccess(clients) == clients = None

\* One invocation of the batch, main_logic up to build_initial_mappings: DRY_RUN
\* as the environment sets it for this invocation, initialize_clients,
\* fetch_all_data (a failed fetch leaves its list empty), the empty mappings.
\* An invocation starts when the previous one has returned or has died of an
\* uncaught exception ("crashed").
\* Calls: 1 = the tracker login, 2 = search_issues, 3 = Table.all(),
\* 4 = building the Airtable client.
StartRunWithin(limit) ==
    /\ pc \in {"idle", "done", "crashed"}
    /\ runs < limit
    /\ runs' = runs + 1
    /\ \E d \in BOOLEAN, f \in FaultSets(4) :
         LET clients == initialize_clients(f)
             returns == NoAccess(clients)
         IN  /\ cfg' = [cfg EXCEPT !.dry = d]
             /\ logged' = Append(logged,
                                  Event(IF d THEN "run_dry" ELSE "run_live", None, None))
                           \o (IF clients = None
                               THEN <<Event("init_failed", None, None)>> ELSE <<>>)
             /\ faultsLeft' = faultsLeft
                               - Cardinality(IF clients = None THEN {1} ELSE f)
             /\ all_jira_issues' = IF returns \/ 2 \in f THEN <<>> ELSE jira
             /\ all_airtable_records' = IF returns \/ 3 \in f THEN <<>> ELSE airtable
             /\ pc' = IF returns THEN "done" ELSE "resolve_records"
    /\ idx' = 1
    /\ jira_key_to_airtable_id' = EmptyMap
    /\ key_order' = <<>>
    /\ airtable_id_to_jira_key' = EmptyMap
    /\ overall_actions_log' = <<>>
    /\ actions_log' = <<>>
    /\ action_details' = <<>>
    /\ issues_to_sprint' = <<>>
    /\ UNCHANGED storeVars

\* At most MaxRuns invocations in a behaviour.
StartRun == StartRunWithin(MaxRuns)

\* At most QuiesceRuns invocations in a behaviour.
StartRunAgain == StartRunWithin(QuiesceRuns)

\* build_initial_mappings, first loop: one TableRecord per step.
ResolveRecord ==
    /\ pc = "resolve_records"
    /\ IF idx <= Len(all_airtable_records)
       THEN LET r == LinkFromCrossReference(jira_key_to_airtable_id, key_order,
                                            airtable_id_to_jira_key,
                                            all_airtable_records[idx])
            IN  /\ jira_key_to_airtable_id' = r.k2i
                /\ key_order' = r.order
                /\ airtable_id_to_jira_key' = r.i2k
                /\ logged' = logged \o r.log
                /\ idx' = idx + 1
                /\ pc' = pc
       ELSE /\ pc' = "resolve_issues"
            /\ idx' = 1
            /\ UNCHANGED <<mapVars, logged>>
    /\ UNCHANGED <<cfg, storeVars, faultsLeft, runs, snapVars, overall_actions_log,
                   actions_log, action_details, issues_to_sprint>>

\* build_initial_mappings, second loop: one ExternalRecord per step.
ResolveIssue ==
    /\ pc = "resolve_issues"
    /\ IF idx <= Len(all_jira_issues)
       THEN LET r == LinkFromDescription(jira_key_to_airtable_id, key_order,
                                         airtable_id_to_jira_key,
                                         all_jira_issues[idx])
            IN  /\ jira_key_to_airtable_id' = r.k2i
                /\ key_order' = r.order
                /\ airtable_id_to_jira_key' = r.i2k
                /\ logged' = logged \o r.log
                /\ idx' = idx + 1
                /\ pc' = pc
       ELSE /\ pc' = "phase1"
            /\ idx' = 1
            /\ UNCHANGED <<mapVars, logged>>
    /\ UNCHANGED <<cfg, storeVars, faultsLeft, runs, snapVars, overall_actions_log,
                   actions_log, action_details, issues_to_sprint>>

----
\* ------------------------------------------------- run_phase1 (Jira -> Airtable)

\* action_details as each phase builds it.
ActionRecord(phase, jira_key, airtable_id) ==
    [phase |-> phase, jira_key |-> jira_key, airtable_id |-> airtable_id,
     new_airtable_id |-> None, new_jira_key |-> None, actions |-> <<>>, error |-> None]

\* f"DRYRUN_REC_FOR_{jira_key}", f"DRYRUN_JIRA_FOR_{record_id}"
DryRunRecordId(jira_key) == "DRYRUN_REC_FOR_" \o jira_key
DryRunIssueKey(record_id) == "DRYRUN_JIRA_FOR_" \o record_id

\* Phase-1 filters without the prefix guard.
Phase1SkipsUnguarded(issue) ==
    issue.key = JIRA_CRO_INTAKE_FORM_KEY \/ issue.key \in DOMAIN jira_key_to_airtable_id

\* The three filters at the head of the run_phase1 loop.
Phase1Skips(issue) ==
    IF issue.key = JIRA_CRO_INTAKE_FORM_KEY THEN TRUE
    ELSE IF issue.key \in DOMAIN jira_key_to_airtable_id THEN TRUE
    ELSE StartsWithPrefix(issue.summary)

\* run_phase1 step B: airtable_fields_to_create, with the fields parsed from a
\* non-empty description laid over the four fixed ones.
Phase1Fields(issue) ==
    (IF issue.description # <<>>
     THEN parse_jira_description_table_to_airtable_fields(issue.description)
     ELSE EmptyMap)
    @@ (AIRTABLE_IDEA_NAME_FIELD :> WithPrefix(issue.summary))
    @@ (AIRTABLE_STATUS_FIELD :> "Idea: Backlog")
    @@ (AIRTABLE_JIRA_KEY_FIELD :> issue.key)
    @@ (AIRTABLE_JIRA_URL_FIELD :> issue.key)

\* One new issue through steps A, B and C of run_phase1.  Remote calls:
\* 1 = issue.update(summary), 2 = the transitions lookup, 3 = transition_issue,
\* 4 = Table.create, 5 = issue.update(description), 6 = the transitions lookup
\* raising something other than the JIRAError the helper catches (caught by the
\* except of step A).  Issue.update reloads the issue object of the snapshot
\* from the tracker.
Phase1Item(issue, f) ==
    LET live == ~cfg.dry
        jira_key == issue.key
        new_summary == WithPrefix(issue.summary)
        \* step A-1
        ok1 == live /\ 1 \notin f
        fail1 == live /\ 1 \in f
        clock1 == IF ok1 THEN clock + 1 ELSE clock
        jira1 == IF ok1 THEN JiraWrite(jira, jira_key, [summary |-> new_summary], clock1)
                 ELSE jira
        issue1 == IF ok1 THEN jira1[IndexOfKey(jira1, jira_key)] ELSE issue
        \* step A-2
        differs == Lower(issue1.status) # Lower(JIRA_NEW_ISSUE_STATUS)
        reach2 == live /\ ~fail1 /\ differs
        transition_id == find_jira_transition_id_by_name(JIRA_NEW_ISSUE_STATUS, 2 \in f)
        raise2 == reach2 /\ LookupRaises(f, 6)
        reach3 == reach2 /\ ~raise2 /\ transition_id # None
        fail3 == reach3 /\ 3 \in f
        ok3 == reach3 /\ 3 \notin f
        clock2 == IF ok3 THEN clock1 + 1 ELSE clock1
        jira2 == IF ok3 THEN JiraWrite(jira1, jira_key, [status |-> transition_id], clock2)
                 ELSE jira1
        failA == fail1 \/ raise2 \/ fail3
        actsA == IF fail1 THEN <<"Jira: Plan to update summary">>
                 ELSE <<IF live THEN "Jira: Successfully updated summary."
                        ELSE "Jira: Plan to update summary">>
                      \o <<IF ~differs THEN "Jira: Already in target status"
                           ELSE IF ok3 THEN "Jira: Successfully transitioned"
                           ELSE IF reach2 /\ ~raise2 /\ ~reach3
                                THEN "Jira: WARNING - No transition found"
                           ELSE "Jira: Plan to set status">>
        \* step B
        fields == Phase1Fields(issue1)
        actsB == (IF issue1.description # <<>>
                  THEN <<"Airtable: Parsed fields from Jira description.">> ELSE <<>>)
        reach4 == live /\ ~failA
        fail4 == reach4 /\ 4 \in f
        ok4 == reach4 /\ 4 \notin f
        clock3 == IF ok4 THEN clock2 + 1 ELSE clock2
        created_airtable_record_id ==
            IF live THEN FreshRecordId(created.rec + 1) ELSE DryRunRecordId(jira_key)
        airtable1 ==
            IF ok4
            THEN Append(airtable,
                        [id |-> created_airtable_record_id,
                         fields |-> (AIRTABLE_LAST_MODIFIED_FIELD_NAME :> AirtableTimeText(clock3))
                                    @@ fields])
            ELSE airtable
        \* step C
        updated_jira_description ==
            Phase1Description(issue1.description, created_airtable_record_id,
                              get_experiment_wxx_txx_id(new_summary))
        reach5 == ok4
        fail5 == reach5 /\ 5 \in f
        ok5 == reach5 /\ 5 \notin f
        clock4 == IF ok5 THEN clock3 + 1 ELSE clock3
        jira3 == IF ok5
                 THEN JiraWrite(jira2, jira_key, [description |-> updated_jira_description],
                                clock4)
                 ELSE jira2
        issue2 == IF ok5 THEN jira3[IndexOfKey(jira3, jira_key)] ELSE issue1
        used == {c \in f : \/ c = 1 /\ live
                           \/ c = 2 /\ reach2
                           \/ c = 3 /\ reach3
                           \/ c = 4 /\ reach4
                           \/ c = 5 /\ reach5
                           \/ c = 6 /\ raise2}
        base == ActionRecord(1, jira_key, None)
        entry ==
            IF failA
            THEN [base EXCEPT !.actions = actsA, !.error = "Jira Update Failed"]
            ELSE IF fail4
            THEN [base EXCEPT !.actions = actsA \o actsB
                                  \o <<"Airtable: Plan to create record">>,
                              !.error = "Airtable Create Failed"]
            ELSE [base EXCEPT
                    !.actions = actsA \o actsB
                        \o <<IF live THEN "Airtable: Successfully created record."
                             ELSE "Airtable: Plan to create record">>
                        \o <<IF ok5 THEN "Jira: Successfully updated description"
                             ELSE "Jira: Plan to update description">>,
                    !.new_airtable_id = created_airtable_record_id,
                    !.error = IF fail5 THEN "Jira Description Update Failed" ELSE None]
    IN  /\ jira' = jira3
        /\ airtable' = airtable1
        /\ clock' = clock4
        /\ created' = IF ok4 THEN [created EXCEPT !.rec = @ + 1] ELSE created
        /\ faultsLeft' = faultsLeft - Cardinality(used)
        /\ all_jira_issues' = [all_jira_issues EXCEPT ![idx] = issue2]
        /\ jira_key_to_airtable_id' =
              IF ok4 THEN Put(jira_key_to_airtable_id, jira_key, created_airtable_record_id)
              ELSE jira_key_to_airtable_id
        /\ key_order' = IF ok4 THEN Append(key_order, jira_key) ELSE key_order
        /\ airtable_id_to_jira_key' =
              IF ok4 THEN Put(airtable_id_to_jira_key, created_airtable_record_id, jira_key)
              ELSE airtable_id_to_jira_key
        /\ actions_log' = Append(actions_log, entry)
        /\ logged' = Append(logged, Event("phase1_new_issue", jira_key, None))

\* run_phase1: one issue of the snapshot per step; after the last one main_logic
\* extends overall_actions_log.  A disabled phase is passed over.
Phase1Step ==
    /\ pc = "phase1"
    /\ IF cfg.phase1 /\ idx <= Len(all_jira_issues)
       THEN /\ pc' = pc
            /\ idx' = idx + 1
            /\ IF Phase1Skips(all_jira_issues[idx])
               THEN UNCHANGED <<jira, airtable, clock, created, faultsLeft,
                                all_jira_issues, mapVars, actions_log, logged>>
               ELSE \E f \in FaultSets(6) : Phase1Item(all_jira_issues[idx], f)
            /\ UNCHANGED overall_actions_log
       ELSE /\ pc' = "phase2"
            /\ idx' = 1
            /\ overall_actions_log' = overall_actions_log \o actions_log
            /\ actions_log' = <<>>
            /\ UNCHANGED <<jira, airtable, clock, created, faultsLeft,
                           all_jira_issues, mapVars, logged>>
    /\ UNCHANGED <<cfg, jiraComments, airtableComments, sprints, sprintIssues,
                   noTransitionTo, runs, all_airtable_records, action_details,
                   issues_to_sprint>>

----
\* ------------------------------------------------- run_phase2 (Airtable -> Jira)

\* The status the tracker's workflow gives a created issue.
JiraInitialStatus == "Triage"

\* A filter that passes every unlinked record, whatever its status.
Phase2SkipsLinkedOnly(record) == record.id \in DOMAIN airtable_id_to_jira_key

\* The two filters at the head of the run_phase2 loop.
Phase2Skips(record) ==
    IF record.id \in DOMAIN airtable_id_to_jira_key THEN TRUE
    ELSE LET current_airtable_status == Get(record.fields, AIRTABLE_STATUS_FIELD)
         IN  ~Truthy(current_airtable_status)
             \/ current_airtable_status \notin AIRTABLE_STATUSES_FOR_JIRA_CREATION_LIST

\* not headline_from_airtable
MissingHeadline(record) ==
    IF AIRTABLE_HEADLINE_FIELD \in DOMAIN record.fields
    THEN record.fields[AIRTABLE_HEADLINE_FIELD] = <<>>
    ELSE TRUE

\* Step C of run_phase2 calls find_jira_transition_id_by_name outside any try:
\* the lookup is reached (live, issue created, status mapped) and raises
\* something other than a JIRAError.
Phase2Aborts(record, f) ==
    /\ ~cfg.dry
    /\ ~MissingHeadline(record)
    /\ 1 \notin f
    /\ DictGet(STATUS_MAPPING_AIRTABLE_TO_JIRA,
               Get(record.fields, AIRTABLE_STATUS_FIELD)) # None
    /\ LookupRaises(f, 5)

\* One selected record through steps A to D of run_phase2.  Remote calls:
\* 1 = create_issue, 2 = the transitions lookup, 3 = transition_issue,
\* 4 = Table.update, 5 = the transitions lookup raising something other than
\* the JIRAError the helper catches.  The identity mappings are not written.
Phase2Item(record, f) ==
    LET live == ~cfg.dry
        record_id == record.id
        current_airtable_status == Get(record.fields, AIRTABLE_STATUS_FIELD)
        base == ActionRecord(2, None, record_id)
        \* step B
        fail1 == live /\ 1 \in f
        ok1 == live /\ 1 \notin f
        clock1 == IF ok1 THEN clock + 1 ELSE clock
        created_jira_issue_key ==
            IF live THEN FreshIssueKey(created.key + 1) ELSE DryRunIssueKey(record_id)
        jira1 ==
            IF ok1
            THEN <<[key |-> created_jira_issue_key,
                    summary |-> record.fields[AIRTABLE_HEADLINE_FIELD],
                    status |-> JiraInitialStatus,
                    description |-> format_full_jira_description(record_id, record.fields),
                    updated |-> JiraTimeText(clock1)]>> \o jira
            ELSE jira
        \* step C
        target_jira_status == DictGet(STATUS_MAPPING_AIRTABLE_TO_JIRA, current_airtable_status)
        reach2 == ok1 /\ target_jira_status # None
        transition_id == find_jira_transition_id_by_name(target_jira_status, 2 \in f)
        raise2 == Phase2Aborts(record, f)
        reach3 == reach2 /\ ~raise2 /\ transition_id # None
        ok3 == reach3 /\ 3 \notin f
        clock2 == IF ok3 THEN clock1 + 1 ELSE clock1
        jira2 == IF ok3
                 THEN JiraWrite(jira1, created_jira_issue_key, [status |-> transition_id],
                                clock2)
                 ELSE jira1
        actsC == <<IF target_jira_status = None THEN "Jira: WARNING - No status mapping"
                   ELSE IF ~live THEN "Jira: Plan to set status of new issue"
                   ELSE IF ok3 THEN "Jira: Successfully set status"
                   ELSE IF reach3 THEN "Jira: ERROR setting status"
                   ELSE "Jira: WARNING - No transition found">>
        \* step D
        reach4 == ok1 /\ ~raise2 /\ cfg.airtable_updates
        fail4 == reach4 /\ 4 \in f
        ok4 == reach4 /\ 4 \notin f
        clock3 == IF ok4 THEN clock2 + 1 ELSE clock2
        airtable1 ==
            IF ok4
            THEN AirtableWrite(airtable, record_id,
                               (AIRTABLE_JIRA_KEY_FIELD :> created_jira_issue_key)
                               @@ (AIRTABLE_JIRA_URL_FIELD :> created_jira_issue_key),
                               clock3)
            ELSE airtable
        actsD == <<IF ~cfg.airtable_updates THEN "Airtable: Update is disabled by flag"
                   ELSE IF ok4 THEN "Airtable: Successfully updated with Jira key."
                   ELSE "Airtable: Plan to update record with Jira key.">>
        used == {c \in f : \/ c = 1 /\ live
                           \/ c = 2 /\ reach2
                           \/ c = 3 /\ reach3
                           \/ c = 4 /\ reach4
                           \/ c = 5 /\ raise2}
        entry ==
            IF MissingHeadline(record)
            THEN [base EXCEPT !.error = "Missing headline in Airtable."]
            ELSE IF fail1
            THEN [base EXCEPT !.actions = <<"Jira: Plan to create issue",
                                            "Jira: DRY RUN - Would create issue.">>,
                              !.error = "Jira Create Failed"]
            ELSE [base EXCEPT
                    !.actions = <<"Jira: Plan to create issue",
                                  IF live THEN "Jira: Successfully created issue"
                                  ELSE "Jira: DRY RUN - Would create issue.">>
                                \o actsC \o actsD,
                    !.new_jira_key = created_jira_issue_key,
                    !.error = IF fail4 THEN "Airtable Update Failed" ELSE None]
    IN  IF MissingHeadline(record)
        THEN /\ actions_log' = Append(actions_log, entry)
             /\ logged' = Append(logged, Event("phase2_new_record", None, record_id))
             /\ UNCHANGED <<jira, airtable, clock, created, faultsLeft>>
        ELSE /\ jira' = jira2
             /\ airtable' = airtable1
             /\ clock' = clock3
             /\ created' = IF ok1 THEN [created EXCEPT !.key = @ + 1] ELSE created
             /\ faultsLeft' = faultsLeft - Cardinality(used)
             /\ actions_log' = IF raise2 THEN <<>> ELSE Append(actions_log, entry)
             /\ logged' = Append(logged, Event("phase2_new_record", None, record_id))

\* run_phase2: one record of the snapshot per step.  When the unguarded lookup
\* of step C raises, the exception leaves run_phase2 and main_logic: the
\* invocation dies with the phase's action log.
Phase2Step ==
    /\ pc = "phase2"
    /\ IF cfg.phase2 /\ idx <= Len(all_airtable_records)
       THEN /\ idx' = idx + 1
            /\ IF Phase2Skips(all_airtable_records[idx])
               THEN /\ pc' = pc
                    /\ UNCHANGED <<jira, airtable, clock, created, faultsLeft,
                                   actions_log, logged>>
               ELSE \E f \in FaultSets(5) :
                       /\ Phase2Item(all_airtable_records[idx], f)
                       /\ pc' = IF Phase2Aborts(all_airtable_records[idx], f)
                                THEN "crashed" ELSE pc
            /\ UNCHANGED overall_actions_log
       ELSE /\ pc' = "phase3"
            /\ idx' = 1
            /\ overall_actions_log' = overall_actions_log \o actions_log
            /\ actions_log' = <<>>
            /\ UNCHANGED <<jira, airtable, clock, created, faultsLeft, logged>>
    /\ UNCHANGED <<cfg, jiraComments, airtableComments, sprints, sprintIssues,
                   noTransitionTo, runs, snapVars, mapVars, action_details,
                   issues_to_sprint>>

----
\* --------------------------------------------- run_phase3: status reconciliation

\* A reading of the Airtable timestamp that falls back on the epoch instead of
\* giving up when the field is absent or is no ISO date.
AirtableUpdatedOrEpoch(fields) ==
    IF AIRTABLE_LAST_MODIFIED_FIELD_NAME \in DOMAIN fields
    THEN (IF fields[AIRTABLE_LAST_MODIFIED_FIELD_NAME].iso
          THEN fields[AIRTABLE_LAST_MODIFIED_FIELD_NAME].local ELSE 0)
    ELSE 0

\* not airtable_updated_dt: the field is absent or is no ISO date (-1).
AirtableUpdated(fields) ==
    IF AIRTABLE_LAST_MODIFIED_FIELD_NAME \in DOMAIN fields
    THEN ParseAirtableTime(fields[AIRTABLE_LAST_MODIFIED_FIELD_NAME])
    ELSE -1

\* is_jira_out_of_sync
JiraOutOfSync(jira_status, airtable_status) ==
    LET expected_jira_status == DictGet(STATUS_MAPPING_AIRTABLE_TO_JIRA, airtable_status)
    IN  IF expected_jira_status = None THEN FALSE
        ELSE Lower(jira_status) # Lower(expected_jira_status)

\* is_airtable_out_of_sync; airtable_status.lower() on a missing status raises.
AirtableOutOfSync(jira_status, airtable_status) ==
    LET expected_airtable_status == DictGet(STATUS_MAPPING_JIRA_TO_AIRTABLE, jira_status)
    IN  IF expected_airtable_status = None THEN FALSE
        ELSE Lower(airtable_status) # Lower(expected_airtable_status)

\* Comparisons that let a tie count as newer, and one made in live mode only.
JiraNewerOrTie(jira_updated_dt, airtable_updated_dt) == jira_updated_dt >= airtable_updated_dt
AirtableNewerOrTie(jira_updated_dt, airtable_updated_dt) ==
    airtable_updated_dt >= jira_updated_dt
AirtableNewerWhenLive(jira_updated_dt, airtable_updated_dt) ==
    ~cfg.dry /\ airtable_updated_dt > jira_updated_dt

\* jira_updated_dt > airtable_updated_dt
JiraNewer(jira_updated_dt, airtable_updated_dt) == jira_updated_dt > airtable_updated_dt
\* airtable_updated_dt > jira_updated_dt
AirtableNewer(jira_updated_dt, airtable_updated_dt) == airtable_updated_dt > jira_updated_dt

StatusCheckRaises(jira_status, airtable_status) ==
    DictGet(STATUS_MAPPING_JIRA_TO_AIRTABLE, jira_status) # None /\ airtable_status = None

\* Chunk 3.A of run_phase3: which branch the pair takes.
\*   "raised"      the comparison raised (caught by the chunk's except);
\*   "ok"          neither side is out of sync;
\*   "skipped"     out of sync, no usable Airtable timestamp;
\*   "to_airtable" Jira strictly newer and Airtable out of sync;
\*   "to_jira"     Airtable strictly newer and Jira out of sync;
\*   "none"        out of sync, neither branch applies.
StatusDecision(issue, record) ==
    LET airtable_status == Get(record.fields, AIRTABLE_STATUS_FIELD)
        jira_status == issue.status
        jira_updated_dt == ParseJiraTime(issue.updated)
        airtable_updated_dt == AirtableUpdated(record.fields)
    IN  IF StatusCheckRaises(jira_status, airtable_status) THEN "raised"
        ELSE IF ~JiraOutOfSync(jira_status, airtable_status)
                /\ ~AirtableOutOfSync(jira_status, airtable_status) THEN "ok"
        ELSE IF airtable_updated_dt < 0 THEN "skipped"
        ELSE IF JiraNewer(jira_updated_dt, airtable_updated_dt)
                /\ AirtableOutOfSync(jira_status, airtable_status) THEN "to_airtable"
        ELSE IF AirtableNewer(jira_updated_dt, airtable_updated_dt)
                /\ JiraOutOfSync(jira_status, airtable_status) THEN "to_jira"
        ELSE "none"

\* Chunk 3.A for one pair found in both snapshots.  Remote calls:
\* 1 = Table.update(status), 2 = the transitions lookup, 3 = transition_issue,
\* 4 = the lookup raising something other than a JIRAError (caught by the
\* chunk's except).
Phase3StatusItem(issue, record, f) ==
    LET live == ~cfg.dry
        jira_key == issue.key
        airtable_id == record.id
        decision == StatusDecision(issue, record)
        expected_jira_status ==
            DictGet(STATUS_MAPPING_AIRTABLE_TO_JIRA, Get(record.fields, AIRTABLE_STATUS_FIELD))
        expected_airtable_status == DictGet(STATUS_MAPPING_JIRA_TO_AIRTABLE, issue.status)
        reach1 == live /\ decision = "to_airtable"
        ok1 == reach1 /\ 1 \notin f
        reach2 == live /\ decision = "to_jira"
        transition_id == find_jira_transition_id_by_name(expected_jira_status, 2 \in f)
        raise2 == reach2 /\ LookupRaises(f, 4)
        reach3 == reach2 /\ ~raise2 /\ transition_id # None
        ok3 == reach3 /\ 3 \notin f
        used == {c \in f : \/ c = 1 /\ reach1
                           \/ c = 2 /\ reach2
                           \/ c = 3 /\ reach3
                           \/ c = 4 /\ raise2}
        details ==
            [ActionRecord(3, jira_key, airtable_id) EXCEPT
               !.actions = CASE decision = "ok" -> <<"Status Sync: OK.">>
                             [] decision = "skipped" ->
                                  <<"Status Sync: SKIPPED - Missing Airtable timestamp.">>
                             [] decision = "to_airtable" ->
                                  <<"Airtable: Plan to update status.">>
                             [] decision = "to_jira" -> <<"Jira: Plan to update status.">>
                             [] OTHER -> <<>>,
               !.error = IF decision = "raised" \/ raise2 THEN "Status Sync Failed"
                         ELSE IF reach1 /\ ~ok1 THEN "Airtable Status Update Failed"
                         ELSE IF reach3 /\ ~ok3 THEN "Jira Transition Failed"
                         ELSE None]
    IN  /\ airtable' = IF ok1
                       THEN AirtableWrite(airtable, airtable_id,
                                          (AIRTABLE_STATUS_FIELD :> expected_airtable_status),
                                          clock + 1)
                       ELSE airtable
        /\ jira' = IF ok3
                   THEN JiraWrite(jira, jira_key, [status |-> transition_id], clock + 1)
                   ELSE jira
        /\ clock' = IF ok1 \/ ok3 THEN clock + 1 ELSE clock
        /\ faultsLeft' = faultsLeft - Cardinality(used)
        /\ action_details' = details
        /\ actions_log' = IF Len(details.actions) > 1 \/ details.error # None
                          THEN Append(actions_log, details) ELSE actions_log
        /\ issues_to_sprint' = IF cfg.sprints THEN Append(issues_to_sprint, issue)
                               ELSE issues_to_sprint
        /\ logged' = logged \o <<Event("pair", jira_key, airtable_id),
                                 Event("status_" \o decision, jira_key, airtable_id)>>

\* run_phase3, head of the loop over jira_key_to_airtable_id_map.items() and
\* chunk 3.A: a pair missing from either snapshot is passed over.
Phase3Status ==
    /\ pc = "phase3"
    /\ IF cfg.phase3 /\ idx <= Len(key_order)
       THEN LET jira_key == key_order[idx]
                airtable_id == jira_key_to_airtable_id[jira_key]
                i == IndexOfKey(all_jira_issues, jira_key)
                r == IndexOfId(all_airtable_records, airtable_id)
            IN  IF i = 0 \/ r = 0
                THEN /\ pc' = pc
                     /\ idx' = idx + 1
                     /\ logged' = Append(logged, Event("pair_not_found", jira_key, airtable_id))
                     /\ UNCHANGED <<jira, airtable, clock, faultsLeft, action_details,
                                    actions_log, issues_to_sprint>>
                ELSE /\ pc' = "phase3_comments"
                     /\ idx' = idx
                     /\ \E f \in FaultSets(4) :
                          Phase3StatusItem(all_jira_issues[i], all_airtable_records[r], f)
       ELSE /\ pc' = IF cfg.phase3 THEN "sprints" ELSE "report"
            /\ idx' = 1
            /\ UNCHANGED <<jira, airtable, clock, faultsLeft, action_details,
                           actions_log, issues_to_sprint, logged>>
    /\ UNCHANGED <<cfg, jiraComments, airtableComments, sprints, sprintIssues,
                   noTransitionTo, created, runs, snapVars, mapVars, overall_actions_log>>

----
\* --------------------------------------------- run_phase3: comment reconciliation

\* A sync tag "[<sys>:<id>]" inside a comment body.
Tag(sys, id) == [sys |-> sys, id |-> id]

\* extract_sync_id: the id of the first "[prefix:...]" tag of the body, or None.
extract_sync_id(body, prefix) ==
    LET i == FirstIndex({j \in 1..Len(body) : body[j].sys = prefix})
    IN  IF i = 0 THEN None ELSE body[i].id

\* The n-th identifier each store hands out for a created comment.
FreshJiraCommentId(n) == "1010" \o ToString(n)
FreshAirtableCommentId(n) == "comNew" \o ToString(n)

CommentsOn(comments, on) == SelectSeq(comments, LAMBDA c : c.on = on)

\* A step 3 that finds nothing to mirror.
NoNewComments(jira_comments, airtable_comments) == <<>>

\* A step 3 that mirrors every Airtable comment, mirrored before or not.
EveryAirtableComment(jira_comments, airtable_comments) == airtable_comments

\* sync_native_comments step 3: the Airtable comments to mirror to Jira.
NewAirtableComments(jira_comments, airtable_comments) ==
    LET synced_from_airtable_ids ==
            {extract_sync_id(jira_comments[i].body, "AirtableCommentID") :
                i \in 1..Len(jira_comments)}
    IN  SelectSeq(airtable_comments, LAMBDA c : c.id \notin synced_from_airtable_ids)

\* A step 4 that looks only at the comment's own tag, not at the table side.
UntaggedJiraComments(jira_comments, airtable_comments) ==
    SelectSeq(jira_comments,
              LAMBDA c : \A j \in 1..Len(c.body) : c.body[j].sys # "AirtableCommentID")

\* sync_native_comments step 4: the Jira comments to mirror to Airtable.
NewJiraComments(jira_comments, airtable_comments) ==
    LET synced_from_jira_ids ==
            {extract_sync_id(airtable_comments[i].body, "JiraCommentID") :
                i \in 1..Len(airtable_comments)}
    IN  SelectSeq(jira_comments,
                  LAMBDA c : /\ c.id \notin synced_from_jira_ids
                             /\ extract_sync_id(c.body, "AirtableCommentID") = None)

\* The numbers 1..n whose call (numbered offset + i) does not fail.
Succeeding(n, offset, f) == SelectSeq([i \in 1..n |-> i], LAMBDA i : (offset + i) \notin f)

\* The action strings of one mirroring loop: a plan per comment, followed by an
\* error entry when its add_comment call fails.
RECURSIVE MirrorActions(_, _, _, _, _)
MirrorActions(n, offset, f, plan, err) ==
    IF n = 0 THEN <<>>
    ELSE MirrorActions(n - 1, offset, f, plan, err) \o <<plan>>
         \o (IF ~cfg.dry /\ (offset + n) \in f THEN <<err>> ELSE <<>>)

\* Chunk 3.C and the second append of run_phase3 for one pair.  Remote calls:
\* 1 = jira_client.comments, 2 = Table.comments, then one add_comment per
\* mirrored comment, Airtable -> Jira first.
Phase3CommentsItem(f) ==
    LET live == ~cfg.dry
        jira_key == action_details.jira_key
        airtable_id == action_details.airtable_id
        jira_comments == CommentsOn(jiraComments, jira_key)
        airtable_comments == CommentsOn(airtableComments, airtable_id)
        enabled == cfg.comments
        fetched == enabled /\ f \cap {1, 2} = {}
        to_jira == IF fetched THEN NewAirtableComments(jira_comments, airtable_comments)
                   ELSE <<>>
        to_airtable == IF fetched THEN NewJiraComments(jira_comments, airtable_comments)
                       ELSE <<>>
        nj == Len(to_jira)
        na == Len(to_airtable)
        okJ == IF live THEN Succeeding(nj, 2, f) ELSE <<>>
        okA == IF live THEN Succeeding(na, 2 + nj, f) ELSE <<>>
        addedJ == [k \in 1..Len(okJ) |->
                     [on |-> jira_key, id |-> FreshJiraCommentId(created.jc + k),
                      body |-> to_jira[okJ[k]].body
                               \o <<Tag("AirtableCommentID", to_jira[okJ[k]].id)>>]]
        addedA == [k \in 1..Len(okA) |->
                     [on |-> airtable_id, id |-> FreshAirtableCommentId(created.ac + k),
                      body |-> to_airtable[okA[k]].body
                               \o <<Tag("JiraCommentID", to_airtable[okA[k]].id)>>]]
        comment_actions ==
            IF ~enabled THEN <<>>
            ELSE IF ~fetched THEN <<"Comment Sync: FAILED">>
            ELSE MirrorActions(nj, 2, f, "Jira: Plan to add new comment from Airtable",
                               "Jira: ERROR adding comment from Airtable")
                 \o MirrorActions(na, 2 + nj, f, "Airtable: Plan to add new comment from Jira",
                                  "Airtable: ERROR adding comment from Jira")
        used == {c \in f : IF ~enabled THEN FALSE
                           ELSE IF c = 1 THEN TRUE
                           ELSE IF c = 2 THEN 1 \notin f
                           ELSE fetched /\ live /\ c <= 2 + nj + na}
        first_appended == Len(action_details.actions) > 1 \/ action_details.error # None
        extended == action_details.actions \o comment_actions
        details == [action_details EXCEPT
                      !.actions = SelectSeq(extended, LAMBDA a : a # "Status Sync: OK.")]
        log1 == IF first_appended
                THEN [actions_log EXCEPT ![Len(actions_log)] = details]
                ELSE actions_log
    IN  /\ jiraComments' = jiraComments \o addedJ
        /\ airtableComments' = airtableComments \o addedA
        /\ created' = [created EXCEPT !.jc = @ + Len(okJ), !.ac = @ + Len(okA)]
        /\ clock' = clock
        /\ faultsLeft' = faultsLeft - Cardinality(used)
        /\ actions_log' = IF details.actions # <<>> \/ details.error # None
                          THEN Append(log1, details) ELSE log1
        /\ logged' = logged
                     \o [i \in 1..nj |-> Event("mirror_to_jira", jira_key, to_jira[i].id)]
                     \o [i \in 1..na |->
                           Event("mirror_to_airtable", airtable_id, to_airtable[i].id)]
                     \o [k \in 1..Len(okJ) |->
                           Event("added_jira_comment", jira_key, to_jira[okJ[k]].id)]
                     \o [k \in 1..Len(okA) |->
                           Event("added_airtable_comment", airtable_id, to_airtable[okA[k]].id)]

\* The number of remote calls sync_native_comments can make for the pair.
CommentCalls ==
    2 + Len(CommentsOn(jiraComments, action_details.jira_key))
      + Len(CommentsOn(airtableComments, action_details.airtable_id))

\* Chunk 3.C of run_phase3 for the pair of the preceding status step, then the
\* second append; with ENABLE_COMMENT_SYNC off only the append happens.
Phase3Comments ==
    /\ pc = "phase3_comments"
    /\ pc' = "phase3"
    /\ idx' = idx + 1
    /\ \E f \in FaultSets(IF cfg.comments THEN CommentCalls ELSE 0) :
          Phase3CommentsItem(f)
    /\ action_details' = <<>>
    /\ UNCHANGED <<cfg, jira, airtable, sprints, sprintIssues, noTransitionTo, runs,
                   snapVars, mapVars, overall_actions_log, issues_to_sprint>>

----
\* --------------------------------------------- run_phase3: sprint management

\* Read by run_phase3 but declared nowhere in common_utils.py: taken as the
\* configured board id, as the specification describes it: the text of the
\* setting, empty when no board is configured.
JIRA_BOARD_ID_CONFIG == cfg.board

FreshSprintId(n) == "sprintNew" \o ToString(n)
DryRunSprintId(sprint_name) == "DRYRUN_SPRINT_ID_FOR_" \o sprint_name

\* str(sprint_id).startswith("DRYRUN")
IsDryRunSprintId(id) == \E n \in {"W2", "W10"} : id = DryRunSprintId(n)

\* The "Wxx" name of an issue's sprint, None when its title has no experiment id.
SprintOf(issue) ==
    LET wxx_id == get_experiment_wxx_txx_id(issue.summary)
    IN  IF wxx_id = None THEN None ELSE SprintNameOf(wxx_id)

\* The keys of sprint_groups in insertion order.
RECURSIVE SprintGroupNames(_)
SprintGroupNames(issues) ==
    IF issues = <<>> THEN <<>>
    ELSE LET before == SprintGroupNames(SubSeq(issues, 1, Len(issues) - 1))
             name == SprintOf(issues[Len(issues)])
         IN  IF name = None \/ \E i \in 1..Len(before) : before[i] = name
             THEN before ELSE Append(before, name)

\* sprint_groups[sprint_name]
SprintGroup(issues, sprint_name) ==
    {issues[i].key : i \in {j \in 1..Len(issues) : SprintOf(issues[j]) = sprint_name}}

\* A find_or_create_sprint whose create_sprint call is not gated by DRY_RUN.
find_or_create_sprint_ungated(sprint_name, f) ==
    LET hit == FirstIndex({i \in 1..Len(sprints) :
                              /\ Lower(sprints[i].name) = Lower(sprint_name)
                              /\ sprints[i].state # "closed"})
    IN  IF 1 \in f THEN None
        ELSE IF hit # 0 THEN sprints[hit].id
        ELSE IF 2 \in f THEN None
        ELSE FreshSprintId(created.sprint + 1)

\* A find_or_create_sprint that also takes a closed sprint of that name.
find_or_create_sprint_any_state(sprint_name, f) ==
    LET hit == FirstIndex({i \in 1..Len(sprints) :
                              Lower(sprints[i].name) = Lower(sprint_name)})
    IN  IF 1 \in f THEN None
        ELSE IF hit # 0 THEN sprints[hit].id
        ELSE IF cfg.dry THEN DryRunSprintId(sprint_name)
        ELSE IF 2 \in f THEN None
        ELSE FreshSprintId(created.sprint + 1)

\* find_or_create_sprint: the first sprint of the board with that name (any case)
\* that is not closed; else a created sprint, or the dry-run placeholder; None
\* when a call raises.  Calls: 1 = sprints(board_id), 2 = create_sprint.
find_or_create_sprint(sprint_name, f) ==
    LET hit == FirstIndex({i \in 1..Len(sprints) :
                              /\ Lower(sprints[i].name) = Lower(sprint_name)
                              /\ sprints[i].state # "closed"})
    IN  IF 1 \in f THEN None
        ELSE IF hit # 0 THEN sprints[hit].id
        ELSE IF cfg.dry THEN DryRunSprintId(sprint_name)
        ELSE IF 2 \in f THEN None
        ELSE FreshSprintId(created.sprint + 1)

\* Sprint groups formed whether or not a board id is configured.
SprintGroupsUngated(board_id, issues) == SprintGroupNames(issues)

\* The sprint groups chunk 3.D goes through: none without a board id ("if not
\* board_id: ... Skipping."), else the keys of sprint_groups.
SprintGroupsDue(board_id, issues) ==
    IF board_id = "" THEN <<>> ELSE SprintGroupNames(issues)

\* One sprint group of chunk 3.D.  Call 3 = add_issues_to_sprint.
SprintItem(sprint_name, f) ==
    LET live == ~cfg.dry
        sprint_id == find_or_create_sprint(sprint_name, f)
        creates == sprint_id = FreshSprintId(created.sprint + 1)
        reach2 == live /\ 1 \notin f /\ (creates \/ sprint_id = None)
        reach3 == live /\ sprint_id # None /\ ~IsDryRunSprintId(sprint_id)
        ok3 == reach3 /\ 3 \notin f
        used == {c \in f : \/ c = 1
                           \/ c = 2 /\ reach2
                           \/ c = 3 /\ reach3}
    IN  /\ sprints' = IF creates
                      THEN Append(sprints, [id |-> sprint_id, name |-> sprint_name,
                                            state |-> "future"])
                      ELSE sprints
        /\ created' = IF creates THEN [created EXCEPT !.sprint = @ + 1] ELSE created
        /\ sprintIssues' =
              IF ok3
              THEN sprintIssues
                   \cup {<<sprint_id, k>> : k \in SprintGroup(issues_to_sprint, sprint_name)}
              ELSE sprintIssues
        /\ faultsLeft' = faultsLeft - Cardinality(used)
        /\ logged' = Append(logged, Event("sprint", sprint_name, sprint_id))

\* Chunk 3.D of run_phase3, one sprint group per step; after the last group
\* run_phase3 returns and main_logic extends overall_actions_log.
SprintStep ==
    /\ pc = "sprints"
    /\ IF idx <= Len(SprintGroupsDue(JIRA_BOARD_ID_CONFIG, issues_to_sprint))
       THEN /\ pc' = pc
            /\ idx' = idx + 1
            /\ \E f \in FaultSets(3) :
                  SprintItem(SprintGroupsDue(JIRA_BOARD_ID_CONFIG, issues_to_sprint)[idx], f)
            /\ UNCHANGED <<overall_actions_log, actions_log>>
       ELSE /\ pc' = "report"
            /\ idx' = 1
            /\ overall_actions_log' = overall_actions_log \o actions_log
            /\ actions_log' = <<>>
            /\ logged' = IF JIRA_BOARD_ID_CONFIG = ""
                         THEN Append(logged, Event("no_board_id", None, None))
                         ELSE logged
            /\ UNCHANGED <<sprints, sprintIssues, created, faultsLeft>>
    /\ UNCHANGED <<cfg, jira, airtable, jiraComments, airtableComments, noTransitionTo,
                   clock, runs, snapVars, mapVars, action_details, issues_to_sprint>>

\* main_logic after the phases: the QA report is written (from a dry run always,
\* from a live run when something was logged) and the run ends.
Report ==
    /\ pc = "report"
    /\ pc' = "done"
    /\ logged' = IF cfg.dry \/ overall_actions_log # <<>>
                 THEN Append(logged, Event("report", None, None)) ELSE logged
    /\ UNCHANGED <<cfg, storeVars, faultsLeft, runs, idx, snapVars, mapVars,
                   overall_actions_log, actions_log, action_details, issues_to_sprint>>

----
\* ------------------------------------------------------ initial states, Next

\* Largest instant of an initial last-modified timestamp; the stores' clock
\* starts after it.
MaxTime == 2

Issue(key, summary, status, description, updated) ==
    [key |-> key, summary |-> summary, status |-> status,
     description |-> description, updated |-> updated]

\* A table record: headline and status, then the optional fields whose value is
\* not None.
Record(id, headline, status, jira_key, modified) ==
    [id |-> id,
     fields |-> (AIRTABLE_HEADLINE_FIELD :> headline)
                @@ (IF status = None THEN EmptyMap ELSE (AIRTABLE_STATUS_FIELD :> status))
                @@ (IF jira_key = None THEN EmptyMap
                    ELSE (AIRTABLE_JIRA_KEY_FIELD :> jira_key))
                @@ (IF modified.local < 0 THEN EmptyMap
                    ELSE (AIRTABLE_LAST_MODIFIED_FIELD_NAME :> modified))]

NoTime == [local |-> -1, iso |-> FALSE]

Flags(phase1, phase2, phase3, comments, sprint_management, airtable_updates) ==
    [dry |-> FALSE, phase1 |-> phase1, phase2 |-> phase2, phase3 |-> phase3,
     comments |-> comments, sprints |-> sprint_management,
     airtable_updates |-> airtable_updates, board |-> "12"]

\* Everything but the stores and the flags, before the first run.
InitRun ==
    /\ clock = MaxTime + 1
    /\ created = [rec |-> 0, key |-> 0, jc |-> 0, ac |-> 0, sprint |-> 0]
    /\ runs = 0
    /\ pc = "idle"
    /\ idx = 1
    /\ all_jira_issues = <<>>
    /\ all_airtable_records = <<>>
    /\ jira_key_to_airtable_id = EmptyMap
    /\ key_order = <<>>
    /\ airtable_id_to_jira_key = EmptyMap
    /\ overall_actions_log = <<>>
    /\ actions_log = <<>>
    /\ action_details = <<>>
    /\ issues_to_sprint = <<>>
    /\ logged = <<>>

\* Cross-reference texts of a record: none, a key, a key with blanks around it,
\* another key, a placeholder, the empty text.
CrossRefs == {None, "PROJ-8", " PROJ-8 ", "PROJ-9", "TBD", ""}

\* Descriptions of an issue: empty, plain text, and metadata blocks naming a
\* record of the table or one that is gone.
Descriptions ==
    {<<>>, <<TextLine("Some idea")>>}
    \cup {<<TextLine("Some idea")>> \o MetadataBlock(r, None, TRUE) :
             r \in {"recA", "recB", "recGone"}}

\* The resolver's cases: two records with any cross-references, two issues
\* with any descriptions; statuses in sync, no comments.
InitIdentity ==
    /\ InitRun
    /\ cfg = Flags(TRUE, TRUE, TRUE, TRUE, TRUE, TRUE)
    /\ faultsLeft = 0
    /\ \E ka, kb \in CrossRefs :
          airtable = <<Record("recA", <<"Checkout", "W10T1">>, "Idea: Backlog", ka,
                              AirtableTimeText(1)),
                       Record("recB", <<"Basket">>, "Idea: Planning", kb,
                              AirtableTimeText(1))>>
    /\ \E d9, d8 \in Descriptions :
          jira = <<Issue("PROJ-9", <<"Improve", "W2T3">>, "Backlog", d9, JiraTimeText(1)),
                   Issue("PROJ-8", <<"Checkout", "W10T1">>, "Backlog", d8, JiraTimeText(1))>>
    /\ jiraComments = <<>>
    /\ airtableComments = <<>>
    /\ sprints = <<>>
    /\ sprintIssues = {}
    /\ noTransitionTo = {}

\* Status reconciliation: the pair PROJ-8 / recA with any statuses and
\* timestamps (the Jira text with or without a UTC offset; the Airtable field
\* absent, an ISO date, or no date), then the pair PROJ-9 / recB, which Jira
\* leads; only phase 3 runs.
InitStatus ==
    /\ InitRun
    /\ cfg = Flags(FALSE, FALSE, TRUE, FALSE, FALSE, FALSE)
    /\ faultsLeft = 0
    /\ \E sa \in {None, "Idea: Backlog", "idea: backlog", "Idea: Evaluated",
                  "Idea: Planning", "Parked"},
          ta \in {NoTime} \cup {[local |-> n, iso |-> b] : n \in 1..MaxTime, b \in BOOLEAN} :
          airtable = <<Record("recA", <<"Checkout", "W10T1">>, sa, "PROJ-8", ta),
                       Record("recB", <<"Basket">>, "Idea: Backlog", "PROJ-9",
                              AirtableTimeText(1))>>
    /\ \E sj \in {"Backlog", "BACKLOG", "Plan", "Triage"},
          tj \in {[local |-> n, off |-> o] : n \in 1..MaxTime, o \in {0, 1}} :
          jira = <<Issue("PROJ-9", <<"Improve", "W2T3">>, "Plan", <<>>,
                         JiraTimeText(MaxTime)),
                   Issue("PROJ-8", <<"Checkout", "W10T1">>, sj, <<>>, tj)>>
    /\ jiraComments = <<>>
    /\ airtableComments = <<>>
    /\ sprints = <<>>
    /\ sprintIssues = {}
    /\ noTransitionTo \in {{}, {"Plan"}, {"Backlog"}}

Comment(on, id, body) == [on |-> on, id |-> id, body |-> body]

\* Comment reconciliation: one linked pair in sync; on each side any of a plain
\* comment and a comment already tagged as a mirror of the other side's plain one.
InitComments ==
    /\ InitRun
    /\ cfg = Flags(FALSE, FALSE, TRUE, TRUE, FALSE, FALSE)
    /\ faultsLeft = 0
    /\ airtable = <<Record("recA", <<"Checkout", "W10T1">>, "Idea: Backlog", "PROJ-8",
                           AirtableTimeText(1))>>
    /\ jira = <<Issue("PROJ-8", <<"Checkout", "W10T1">>, "Backlog", <<>>, JiraTimeText(1))>>
    /\ \E j1, j2 \in BOOLEAN :
          jiraComments =
             (IF j1 THEN <<Comment("PROJ-8", "10001", <<>>)>> ELSE <<>>)
             \o (IF j2 THEN <<Comment("PROJ-8", "10002",
                                      <<Tag("AirtableCommentID", "comA")>>)>>
                 ELSE <<>>)
    /\ \E a1, a2 \in BOOLEAN :
          airtableComments =
             (IF a1 THEN <<Comment("recA", "comA", <<>>)>> ELSE <<>>)
             \o (IF a2 THEN <<Comment("recA", "comB", <<Tag("JiraCommentID", "10001")>>)>>
                 ELSE <<>>)
    /\ sprints = <<>>
    /\ sprintIssues = {}
    /\ noTransitionTo = {}

\* A whole run: the intake form, a new issue PROJ-9, a linked pair PROJ-8 / recA
\* with any statuses and timestamps, a record recB to create in Jira, comments
\* on the pair, a board with or without a sprint for the pair's experiment.
InitStores ==
    /\ InitRun
    /\ cfg = Flags(TRUE, TRUE, TRUE, TRUE, TRUE, TRUE)
    /\ \E sa \in {"Idea: Backlog", "Idea: Planning"}, ta \in 1..MaxTime :
          airtable = <<Record("recA", <<"Checkout", "W10T1">>, sa, "PROJ-8",
                              AirtableTimeText(ta)),
                       Record("recB", <<"Basket", "W2T3">>, "Idea: Evaluated", None,
                              AirtableTimeText(1))>>
    /\ \E tj \in 1..MaxTime :
          jira = <<Issue("PROJ-9", <<"Improve", "w2t3">>, "Triage",
                         <<TextLine("Some idea"), RowLine("4. Country", "Belgium")>>,
                         JiraTimeText(1)),
                   Issue("PROJ-8", <<"Checkout", "W10T1">>, "Backlog", <<>>,
                         JiraTimeText(tj)),
                   Issue("PROJ-7", <<"Intake", "form">>, "Backlog", <<>>, JiraTimeText(1))>>
    /\ jiraComments \in {<<>>, <<Comment("PROJ-8", "10001", <<>>)>>}
    /\ airtableComments \in {<<>>, <<Comment("recA", "comA", <<>>)>>}
    /\ sprints \in {<<>>, <<[id |-> "sprint1", name |-> "W10", state |-> "closed"],
                           [id |-> "sprint2", name |-> "w10", state |-> "active"]>>}
    /\ sprintIssues = {}
    /\ noTransitionTo \in {{}, {"Plan"}}

\* The two creation propagators: the linked pair PROJ-8 / recA in sync; the
\* unlinked issue PROJ-9 new, already in the target status, or already carrying
\* the prefix; the unlinked record recB with a status inside or outside the
\* allow-list (with and without a mapping) or none, and a headline that is set,
\* empty or absent; the link write-back switched on or off; a workflow with or
\* without a transition to "Backlog"; up to MaxFaults remote calls fail.
InitPropagate ==
    /\ InitRun
    /\ \E u \in BOOLEAN : cfg = Flags(TRUE, TRUE, TRUE, TRUE, TRUE, u)
    /\ faultsLeft = MaxFaults
    /\ \E b \in { [s |-> "Idea: Evaluated", h |-> 1], [s |-> "Idea: Evaluated", h |-> 2],
                   [s |-> "Idea: Evaluated", h |-> 3], [s |-> "Parked", h |-> 1],
                   [s |-> "Idea: Planning", h |-> 1], [s |-> None, h |-> 1] } :
          LET recA == Record("recA", <<"Checkout", "W10T1">>, "Idea: Backlog", "PROJ-8",
                             AirtableTimeText(1))
              full == Record("recB", <<"Basket", "W2T3">>, b.s, None, AirtableTimeText(1))
              blank == Record("recB", <<>>, b.s, None, AirtableTimeText(1))
              bare == [id |-> "recB",
                       fields |-> [k \in DOMAIN full.fields \ {AIRTABLE_HEADLINE_FIELD}
                                     |-> full.fields[k]]]
          IN  airtable = <<recA, CASE b.h = 1 -> full [] b.h = 2 -> blank [] OTHER -> bare>>
    /\ \E i \in { [t |-> <<"w2t3", "checkout", "flow">>, s |-> "Triage",
                    d |-> <<TextLine("Some idea"), RowLine("4. Country", "Belgium")>>],
                   [t |-> <<"w2t3", "checkout", "flow">>, s |-> "Backlog", d |-> <<>>],
                   [t |-> WithPrefix(<<"w2t3", "checkout", "flow">>), s |-> "Triage",
                    d |-> <<>>] } :
          jira = <<Issue("PROJ-9", i.t, i.s, i.d, JiraTimeText(1)),
                   Issue("PROJ-8", <<"Checkout", "W10T1">>, "Backlog", <<>>, JiraTimeText(1)),
                   Issue("PROJ-7", <<"Intake", "form">>, "Backlog", <<>>, JiraTimeText(1))>>
    /\ jiraComments = <<>>
    /\ airtableComments = <<>>
    /\ sprints = <<>>
    /\ sprintIssues = {}
    /\ noTransitionTo \in {{}, {"Backlog"}}

\* Descriptions an unlinked issue can carry when phase 1 or the resolver reads
\* it: none, plain text, text followed by the block of a record linked to
\* another issue (a cloned issue), that block at the very start of the text
\* with or without text after it, that block after a single line break, and
\* two stacked blocks of which only the second names a record.
CodecDescriptions ==
    LET block == <<HeaderLine, RecLine("recA"), ExpLine("W10T1"), UrlLine("recA")>>
    IN  { <<>>,
          <<TextLine("Some idea")>>,
          <<TextLine("Some idea")>> \o MetadataBlock("recA", "W10T1", TRUE),
          MetadataBlock("recA", "W10T1", TRUE),
          block,
          block \o <<BlankLine, TextLine("Some idea")>>,
          <<BlankLine>> \o block,
          <<TextLine("Some idea")>> \o MetadataBlock(None, "W2T3", FALSE)
             \o MetadataBlock("recB", None, TRUE),
          <<TextLine("Some idea")>> \o MetadataBlock("recA", None, TRUE)
             \o MetadataBlock("recB", "W2T3", TRUE) }

\* Fields of the unlinked record besides headline and status: none, or an
\* experiment id (as the pattern wants it, in lower case, or free text) with a
\* non-reference field (plain, holding the column delimiter, holding a line
\* break).
CodecFields ==
    { EmptyMap,
      (AIRTABLE_EXPERIMENT_ID_FIELD :> "W2T3") @@ ("Observation" :> "plain"),
      (AIRTABLE_EXPERIMENT_ID_FIELD :> "w2t3") @@ ("Observation" :> "a|b"),
      (AIRTABLE_EXPERIMENT_ID_FIELD :> "EXP-7") @@ ("Observation" :> "two\nlines") }

\* The description codec at work: the linked pair PROJ-8 / recA in sync, the
\* unlinked issue PROJ-9 with any of the descriptions, the unlinked record recB
\* with any of the field sets; no remote call fails.
InitCodec ==
    /\ InitRun
    /\ cfg = Flags(TRUE, TRUE, TRUE, TRUE, TRUE, FALSE)
    /\ faultsLeft = 0
    /\ \E e \in CodecFields :
          LET recA == Record("recA", <<"Checkout", "W10T1">>, "Idea: Backlog", "PROJ-8",
                             AirtableTimeText(1))
              recB == Record("recB", <<"Basket", "W2T3">>, "Idea: Evaluated", None,
                             AirtableTimeText(1))
          IN  airtable = <<recA, [recB EXCEPT !.fields = e @@ @]>>
    /\ \E d \in CodecDescriptions :
          jira = <<Issue("PROJ-9", <<"w2t3", "checkout", "flow">>, "Triage", d, JiraTimeText(1)),
                   Issue("PROJ-8", <<"Checkout", "W10T1">>, "Backlog", <<>>, JiraTimeText(1)),
                   Issue("PROJ-7", <<"Intake", "form">>, "Backlog", <<>>, JiraTimeText(1))>>
    /\ jiraComments = <<>>
    /\ airtableComments = <<>>
    /\ sprints = <<>>
    /\ sprintIssues = {}
    /\ noTransitionTo = {}

\* Every phase enabled; up to MaxFaults remote calls fail.
Init == InitStores /\ faultsLeft = MaxFaults

\* Sprint grouping: three linked pairs, the first out of sync or not; PROJ-8
\* carries an experiment id, PROJ-7 the same one or none, PROJ-9 one in lower
\* case or none; the flag on or off, a board id configured or not; a board with
\* no sprint, with a closed and an open sprint of the first group's name, or with
\* two open ones; up to MaxFaults remote calls fail.
InitSprints ==
    /\ InitRun
    /\ \E sm \in BOOLEAN, b \in {"12", ""} :
          cfg = [Flags(FALSE, FALSE, TRUE, FALSE, sm, FALSE) EXCEPT !.board = b]
    /\ faultsLeft = MaxFaults
    /\ \E sa \in {"Idea: Backlog", "Idea: Planning"} :
          airtable = <<Record("recA", <<"Checkout", "W10T1">>, sa, "PROJ-8",
                              AirtableTimeText(MaxTime)),
                       Record("recB", <<"Basket">>, "Idea: Backlog", "PROJ-9",
                              AirtableTimeText(1)),
                       Record("recC", <<"Intake">>, "Idea: Backlog", "PROJ-7",
                              AirtableTimeText(1))>>
    /\ \E t9 \in {<<"Improve", "w2t3">>, <<"Improve">>},
          t7 \in {<<"Intake", "W10T1">>, <<"Intake", "form">>} :
          jira = <<Issue("PROJ-9", t9, "Backlog", <<>>, JiraTimeText(1)),
                   Issue("PROJ-8", <<"Checkout", "W10T1">>, "Backlog", <<>>,
                         JiraTimeText(1)),
                   Issue("PROJ-7", t7, "Backlog", <<>>, JiraTimeText(1))>>
    /\ jiraComments = <<>>
    /\ airtableComments = <<>>
    /\ sprints \in {<<>>,
                    <<[id |-> "sprint1", name |-> "W10", state |-> "closed"],
                      [id |-> "sprint2", name |-> "w10", state |-> "active"]>>,
                    <<[id |-> "sprint2", name |-> "w10", state |-> "active"],
                      [id |-> "sprint3", name |-> "W10", state |-> "future"]>>}
    /\ sprintIssues = {}
    /\ noTransitionTo = {}

\* Repeated runs over the same stores: the linked pair PROJ-8 / recA in sync, the
\* unlinked record recB ready for the tracker, the unlinked issue PROJ-9 with no
\* description or with one that starts with the metadata block of recA (an
\* issue cloned from PROJ-8); no title carries the prefix yet; the link
\* write-back on or off, a workflow with or without a transition to "Backlog";
\* up to RepeatFaults remote calls fail.
RepeatFaults == 2

InitRepeat ==
    /\ InitRun
    /\ \E u \in BOOLEAN : cfg = Flags(TRUE, TRUE, TRUE, FALSE, FALSE, u)
    /\ faultsLeft = RepeatFaults
    /\ airtable = <<Record("recA", <<"Checkout", "W10T1">>, "Idea: Backlog", "PROJ-8",
                           AirtableTimeText(1)),
                    Record("recB", <<"Basket", "W2T3">>, "Idea: Evaluated", None,
                           AirtableTimeText(1))>>
    /\ \E d \in {<<>>, <<HeaderLine, RecLine("recA"), ExpLine("W10T1"), UrlLine("recA")>>} :
          jira = <<Issue("PROJ-9", <<"w2t3", "checkout", "flow">>, "Triage", d,
                         JiraTimeText(1)),
                   Issue("PROJ-8", <<"Checkout", "W10T1">>, "Backlog", <<>>, JiraTimeText(1)),
                   Issue("PROJ-7", <<"Intake", "form">>, "Backlog", <<>>, JiraTimeText(1))>>
    /\ jiraComments = <<>>
    /\ airtableComments = <<>>
    /\ sprints = <<>>
    /\ sprintIssues = {}
    /\ noTransitionTo \in {{}, {"Backlog"}}

\* Runs repeated until the stores settle: the linked pair PROJ-8 / recA with
\* statuses that agree, that differ, or that map one way only, either side the
\* newer; the unlinked record recB ready for the tracker and the unlinked issue
\* PROJ-9; a comment on either side of the pair or none; the link write-back on
\* or off; no remote call fails.
InitQuiesce ==
    /\ InitRun
    /\ \E u \in BOOLEAN : cfg = Flags(TRUE, TRUE, TRUE, TRUE, FALSE, u)
    /\ faultsLeft = 0
    /\ \E sa \in {"Idea: Backlog", "Idea: Planning", "Idea: Evaluated"}, ta \in 1..MaxTime :
          airtable = <<Record("recA", <<"Checkout", "W10T1">>, sa, "PROJ-8",
                              AirtableTimeText(ta)),
                       Record("recB", <<"Basket", "W2T3">>, "Idea: Evaluated", None,
                              AirtableTimeText(1))>>
    /\ \E sj \in {"Backlog", "Plan"}, tj \in 1..MaxTime :
          jira = <<Issue("PROJ-9", <<"Improve", "w2t3">>, "Triage",
                         <<TextLine("Some idea"), RowLine("4. Country", "Belgium")>>,
                         JiraTimeText(1)),
                   Issue("PROJ-8", <<"Checkout", "W10T1">>, sj, <<>>, JiraTimeText(tj)),
                   Issue("PROJ-7", <<"Intake", "form">>, "Backlog", <<>>, JiraTimeText(1))>>
    /\ jiraComments \in {<<>>, <<Comment("PROJ-8", "10001", <<>>)>>}
    /\ airtableComments \in {<<>>, <<Comment("recA", "comA", <<>>)>>}
    /\ sprints = <<>>
    /\ sprintIssues = {}
    /\ noTransitionTo = {}

\* Every phase enabled; no remote call fails.
InitReliable == InitStores /\ faultsLeft = 0

Next ==
    \/ StartRun
    \/ ResolveRecord
    \/ ResolveIssue
    \/ Phase1Step
    \/ Phase2Step
    \/ Phase3Status
    \/ Phase3Comments
    \/ SprintStep
    \/ Report

Spec == Init /\ [][Next]_vars
SpecIdentity == InitIdentity /\ [][Next]_vars
SpecStatus == InitStatus /\ [][Next]_vars
SpecReliable == InitReliable /\ [][Next]_vars
SpecPropagate == InitPropagate /\ [][Next]_vars
SpecComments == InitComments /\ [][Next]_vars
SpecCodec == InitCodec /\ [][Next]_vars
SpecSprints == InitSprints /\ [][Next]_vars
SpecRepeat == InitRepeat /\ [][Next]_vars

\* The same program, invoked up to QuiesceRuns times.
NextQuiesce ==
    \/ StartRunAgain
    \/ ResolveRecord
    \/ ResolveIssue
    \/ Phase1Step
    \/ Phase2Step
    \/ Phase3Status
    \/ Phase3Comments
    \/ SprintStep
    \/ Report

SpecQuiesce == InitQuiesce /\ [][NextQuiesce]_vars

----
\* ============================================================== properties

\* True when some event of the log file has this name.
Logged(ev) == \E i \in 1..Len(logged) : logged[i].ev = ev

\* --------------------------------------------------- the Identity Resolver

\* C1: at every point of a run the two mappings are inverse to each other: every
\* key of key->id maps to an id that id->key maps back to that key, and every id
\* of id->key maps to a key that key->id maps back to that id.
C1_MappingsArePartialBijection ==
    /\ \A k \in DOMAIN jira_key_to_airtable_id :
          /\ jira_key_to_airtable_id[k] \in DOMAIN airtable_id_to_jira_key
          /\ airtable_id_to_jira_key[jira_key_to_airtable_id[k]] = k
    /\ \A r \in DOMAIN airtable_id_to_jira_key :
          /\ airtable_id_to_jira_key[r] \in DOMAIN jira_key_to_airtable_id
          /\ jira_key_to_airtable_id[airtable_id_to_jira_key[r]] = r

\* A live run has ended in which the resolver refused a second link for a key
\* and phase 1 registered the record it created for a new issue.
C1_Witness ==
    /\ pc = "done"
    /\ Logged("conflict_key")
    /\ \E k \in DOMAIN jira_key_to_airtable_id :
          jira_key_to_airtable_id[k] = FreshRecordId(1)

\* The record of the first loop's current step carries a well-formed key that
\* is already linked to another record.
KeyAlreadyLinkedElsewhere ==
    /\ pc = "resolve_records"
    /\ idx <= Len(all_airtable_records)
    /\ AIRTABLE_JIRA_KEY_FIELD \in DOMAIN all_airtable_records[idx].fields
    /\ LET k == Strip(all_airtable_records[idx].fields[AIRTABLE_JIRA_KEY_FIELD])
       IN  /\ MatchesKeyPattern(k)
           /\ k \in DOMAIN jira_key_to_airtable_id
           /\ jira_key_to_airtable_id[k] # all_airtable_records[idx].id

\* The issue of the second loop's current step is not linked yet and its
\* description names a record that is already linked to another key.
IdAlreadyLinkedElsewhere ==
    /\ pc = "resolve_issues"
    /\ idx <= Len(all_jira_issues)
    /\ all_jira_issues[idx].key \notin DOMAIN jira_key_to_airtable_id
    /\ LET r == parse_metadata_from_jira_description(
                   all_jira_issues[idx].description).airtable_record_id
       IN  /\ r \in DOMAIN airtable_id_to_jira_key
           /\ airtable_id_to_jira_key[r] # all_jira_issues[idx].key

\* C2: a resolver step that tries to link a key, or a record id, already linked
\* to a different counterpart leaves both mappings as they were, writes one
\* conflict warning to the log, and goes on to the next item of its loop.
C2_ConflictKeepsFirstLink ==
    [][ /\ KeyAlreadyLinkedElsewhere
           => /\ UNCHANGED mapVars
              /\ logged' = Append(logged,
                     Event("conflict_key",
                           Strip(all_airtable_records[idx].fields[AIRTABLE_JIRA_KEY_FIELD]),
                           all_airtable_records[idx].id))
              /\ pc' = pc
              /\ idx' = idx + 1
        /\ IdAlreadyLinkedElsewhere
           => /\ UNCHANGED mapVars
              /\ logged' = Append(logged,
                     Event("conflict_id", all_jira_issues[idx].key,
                           parse_metadata_from_jira_description(
                              all_jira_issues[idx].description).airtable_record_id))
              /\ pc' = pc
              /\ idx' = idx + 1 ]_vars

\* A run has ended whose resolver met a conflict on a key and a conflict on a
\* record id.
C2_Witness ==
    /\ pc = "done"
    /\ Logged("conflict_key")
    /\ Logged("conflict_id")

\* The keys some record of the snapshot names in its cross-reference field.
CrossReferencedKeys ==
    {Strip(all_airtable_records[i].fields[AIRTABLE_JIRA_KEY_FIELD]) :
        i \in {j \in 1..Len(all_airtable_records) :
                  /\ AIRTABLE_JIRA_KEY_FIELD \in DOMAIN all_airtable_records[j].fields
                  /\ MatchesKeyPattern(
                        Strip(all_airtable_records[j].fields[AIRTABLE_JIRA_KEY_FIELD]))}}

\* The record id the metadata block of an issue yields.
RecoveredId(issue) ==
    parse_metadata_from_jira_description(issue.description).airtable_record_id

\* C3: in the second loop, an issue whose key no record cross-references and
\* whose description yields a record id not linked to another key is linked to
\* that id, in both mappings; and no step of the second loop changes or removes
\* a link that exists when it starts, so a cross-reference link is never
\* replaced by a recovered one.
C3_MetadataLinkRecovered ==
    [][ (pc = "resolve_issues" /\ idx <= Len(all_jira_issues))
        => /\ \A k \in DOMAIN jira_key_to_airtable_id :
                 /\ k \in DOMAIN jira_key_to_airtable_id'
                 /\ jira_key_to_airtable_id'[k] = jira_key_to_airtable_id[k]
           /\ \A r \in DOMAIN airtable_id_to_jira_key :
                 /\ r \in DOMAIN airtable_id_to_jira_key'
                 /\ airtable_id_to_jira_key'[r] = airtable_id_to_jira_key[r]
           /\ LET issue == all_jira_issues[idx]
              IN  ( /\ issue.key \notin CrossReferencedKeys
                    /\ RecoveredId(issue) # None
                    /\ \/ RecoveredId(issue) \notin DOMAIN airtable_id_to_jira_key
                       \/ airtable_id_to_jira_key[RecoveredId(issue)] = issue.key )
                  => /\ issue.key \in DOMAIN jira_key_to_airtable_id'
                     /\ jira_key_to_airtable_id'[issue.key] = RecoveredId(issue)
                     /\ airtable_id_to_jira_key'[RecoveredId(issue)] = issue.key ]_vars

\* The resolver has ended having recovered a link from a description, while an
\* issue linked through a cross-reference keeps that link although its own
\* description names a different record.
C3_Witness ==
    /\ pc = "phase1"
    /\ idx = 1
    /\ Logged("recovered")
    /\ \E i \in 1..Len(all_jira_issues) :
          /\ all_jira_issues[i].key \in CrossReferencedKeys
          /\ RecoveredId(all_jira_issues[i]) # None
          /\ jira_key_to_airtable_id[all_jira_issues[i].key]
                # RecoveredId(all_jira_issues[i])

\* ---------------------------------------------------- status reconciliation

\* The pair the status chunk is about to reconcile, as the snapshots show it.
ReconcilesPair ==
    /\ pc = "phase3"
    /\ cfg.phase3
    /\ idx <= Len(key_order)
    /\ IndexOfKey(all_jira_issues, key_order[idx]) # 0
    /\ IndexOfId(all_airtable_records, jira_key_to_airtable_id[key_order[idx]]) # 0

PairIssue == all_jira_issues[IndexOfKey(all_jira_issues, key_order[idx])]
PairRecord ==
    all_airtable_records[IndexOfId(all_airtable_records,
                                   jira_key_to_airtable_id[key_order[idx]])]
ExternalUpdatedAt == ParseJiraTime(PairIssue.updated)
TableUpdatedAt == AirtableUpdated(PairRecord.fields)
PairTableStatus == Get(PairRecord.fields, AIRTABLE_STATUS_FIELD)

\* The pair's table record has no last-modified field, or one that is no date.
PairTimestampMissing ==
    \/ AIRTABLE_LAST_MODIFIED_FIELD_NAME \notin DOMAIN PairRecord.fields
    \/ ~PairRecord.fields[AIRTABLE_LAST_MODIFIED_FIELD_NAME].iso

\* The pair's statuses can be compared and one side at least is out of sync.
PairOutOfSync ==
    /\ ~StatusCheckRaises(PairIssue.status, PairTableStatus)
    /\ \/ JiraOutOfSync(PairIssue.status, PairTableStatus)
       \/ AirtableOutOfSync(PairIssue.status, PairTableStatus)

\* The statuses held by the two stores.
ExternalStatuses == [i \in 1..Len(jira) |-> jira[i].status]
TableStatuses == [i \in 1..Len(airtable) |-> Get(airtable[i].fields, AIRTABLE_STATUS_FIELD)]

\* C4: when the two last-modified instants of a pair are equal, the status step
\* changes no status in either store, whatever the two statuses are.
C4_TieMutatesNothing ==
    [][ (ReconcilesPair /\ TableUpdatedAt >= 0 /\ ExternalUpdatedAt = TableUpdatedAt)
        => /\ ExternalStatuses' = ExternalStatuses
           /\ TableStatuses' = TableStatuses ]_vars

\* A live run has passed the status chunk of an out-of-sync pair whose two
\* instants are equal although the two timestamp texts differ (the Jira text
\* carries a UTC offset).
C4_Witness ==
    /\ pc = "phase3_comments"
    /\ ~cfg.dry
    /\ action_details.jira_key = "PROJ-8"
    /\ logged[Len(logged)].ev = "status_none"
    /\ LET i == all_jira_issues[IndexOfKey(all_jira_issues, "PROJ-8")]
           r == all_airtable_records[IndexOfId(all_airtable_records, "recA")]
       IN  /\ ParseJiraTime(i.updated) = AirtableUpdated(r.fields)
           /\ i.updated.off # 0
           /\ JiraOutOfSync(i.status, Get(r.fields, AIRTABLE_STATUS_FIELD))
           /\ AirtableOutOfSync(i.status, Get(r.fields, AIRTABLE_STATUS_FIELD))

\* No transition of the workflow leads to the status the pair's table status
\* maps to.
PairTargetUnreachable ==
    LET target == DictGet(STATUS_MAPPING_AIRTABLE_TO_JIRA, PairTableStatus)
    IN  /\ target # None
        /\ \E st \in noTransitionTo : Lower(st) = Lower(target)

\* C5: the status step of a pair changes a status in at most one store; it
\* changes a table status only if the external record is strictly newer and the
\* table side is out of sync, and then only the pair's record, to the status the
\* external one maps to; it changes an external status only if the table record
\* is strictly newer and the external side is out of sync, and then only the
\* pair's issue; and when no transition leads to the target status the external
\* statuses stay as they are.
C5_OnlyTheOlderSideIsMutated ==
    [][ ReconcilesPair
        => /\ ~(TableStatuses' # TableStatuses /\ ExternalStatuses' # ExternalStatuses)
           /\ TableStatuses' # TableStatuses
              => /\ TableUpdatedAt >= 0
                 /\ ExternalUpdatedAt > TableUpdatedAt
                 /\ AirtableOutOfSync(PairIssue.status, PairTableStatus)
                 /\ \A i \in 1..Len(airtable) :
                       TableStatuses'[i] =
                          IF airtable[i].id = PairRecord.id
                          THEN DictGet(STATUS_MAPPING_JIRA_TO_AIRTABLE, PairIssue.status)
                          ELSE TableStatuses[i]
           /\ ExternalStatuses' # ExternalStatuses
              => /\ TableUpdatedAt > ExternalUpdatedAt
                 /\ JiraOutOfSync(PairIssue.status, PairTableStatus)
                 /\ \A i \in 1..Len(jira) :
                       jira[i].key # PairIssue.key
                       => ExternalStatuses'[i] = ExternalStatuses[i]
           /\ PairTargetUnreachable => ExternalStatuses' = ExternalStatuses ]_vars

\* A live run has ended in which one pair's issue was transitioned (the table
\* record being newer) and the other pair's record was updated (the issue being
\* newer).
C5_Witness ==
    /\ pc = "done"
    /\ ~cfg.dry
    /\ runs = 1
    /\ jira[IndexOfKey(jira, "PROJ-8")].status = "Plan"
    /\ all_jira_issues[IndexOfKey(all_jira_issues, "PROJ-8")].status = "Backlog"
    /\ Get(airtable[IndexOfId(airtable, "recB")].fields, AIRTABLE_STATUS_FIELD)
          = "Idea: Planning"

\* The events logged since the running (or last) run began.
RunLog ==
    LET marks == {i \in 1..Len(logged) : logged[i].ev \in {"run_dry", "run_live"}}
    IN  IF marks = {} THEN <<>>
        ELSE SubSeq(logged, (CHOOSE i \in marks : \A j \in marks : j <= i) + 1, Len(logged))

InRunLog(ev, key) == \E i \in 1..Len(RunLog) : RunLog[i].ev = ev /\ RunLog[i].key = key

RunMarks == {i \in 1..Len(logged) : logged[i].ev \in {"run_dry", "run_live"}}
MarkOfRun(n) == CHOOSE i \in RunMarks : Cardinality({j \in RunMarks : j <= i}) = n
EventsOfRun(n) ==
    SubSeq(logged, MarkOfRun(n) + 1,
           IF Cardinality(RunMarks) > n THEN MarkOfRun(n + 1) - 1 ELSE Len(logged))

CommentCreations == {"added_jira_comment", "added_airtable_comment"}

\* C7: a live run that follows a live run (no remote call of either failing, no
\* edit in between) creates no comment on either side.
C7_SecondLiveRunCreatesNoComment ==
    \A n \in 2..Cardinality(RunMarks) :
       ( /\ logged[MarkOfRun(n - 1)].ev = "run_live"
         /\ logged[MarkOfRun(n)].ev = "run_live"
         /\ faultsLeft = 0 )
       => \A i \in 1..Len(EventsOfRun(n)) : EventsOfRun(n)[i].ev \notin CommentCreations

\* The comment with the given identifier.
CommentById(comments, id) ==
    comments[FirstIndex({i \in 1..Len(comments) : comments[i].id = id})]

\* The tag values of one kind found on a sequence of comments.
TagValues(comments, prefix) ==
    {extract_sync_id(comments[i].body, prefix) : i \in 1..Len(comments)} \ {None}

\* C8: every comment chosen for mirroring by the comment step of a pair carries
\* no tag saying it came from the other system, and its identifier is no tag
\* value on the other side; this in both directions.
C8_MirrorsAreNeverMirroredBack ==
    [][ pc = "phase3_comments"
        => \A i \in (Len(logged) + 1)..Len(logged') :
              LET e == logged'[i]
                  jira_comments == CommentsOn(jiraComments, action_details.jira_key)
                  airtable_comments ==
                      CommentsOn(airtableComments, action_details.airtable_id)
              IN  /\ e.ev = "mirror_to_jira"
                     => /\ extract_sync_id(CommentById(airtable_comments, e.id).body,
                                           "JiraCommentID") = None
                        /\ e.id \notin TagValues(jira_comments, "AirtableCommentID")
                  /\ e.ev = "mirror_to_airtable"
                     => /\ extract_sync_id(CommentById(jira_comments, e.id).body,
                                           "AirtableCommentID") = None
                        /\ e.id \notin TagValues(airtable_comments, "JiraCommentID") ]_vars

\* ------------------------------------------------------------------ dry run

\* C9: no step of a dry run changes anything the two stores hold (issues,
\* records, comments, sprints and their members), nor creates anything; so the
\* stores after a complete dry run are what they were when it started.
C9_DryRunMutatesNothing ==
    [][ cfg'.dry => UNCHANGED storeVars ]_vars

\* A dry run has ended that planned a record for an intake issue, an issue for
\* a record, a sprint and the mirror of a comment, and created none of them.
C9_Witness ==
    /\ pc = "done"
    /\ cfg.dry
    /\ \E i \in 1..Len(overall_actions_log) :
          /\ overall_actions_log[i].phase = 1
          /\ overall_actions_log[i].new_airtable_id = DryRunRecordId("PROJ-9")
    /\ \E i \in 1..Len(overall_actions_log) :
          /\ overall_actions_log[i].phase = 2
          /\ overall_actions_log[i].new_jira_key = DryRunIssueKey("recB")
    /\ \E i \in 1..Len(RunLog) : RunLog[i].ev = "sprint" /\ IsDryRunSprintId(RunLog[i].id)
    /\ \E i \in 1..Len(RunLog) : RunLog[i].ev = "mirror_to_airtable"
    /\ sprints = <<>>
    /\ airtableComments = <<>>

\* The events that record a decision: the items each propagator selects, the
\* pairs Phase 3 reconciles, the status branch taken and the comments chosen
\* for mirroring.
DecisionEvents ==
    {"phase1_new_issue", "phase2_new_record", "pair", "status_raised", "status_ok",
     "status_skipped", "status_to_airtable", "status_to_jira", "status_none",
     "mirror_to_jira", "mirror_to_airtable"}
DecisionsOfRun(n) == SelectSeq(EventsOfRun(n), LAMBDA e : e.ev \in DecisionEvents)

\* The first two runs are a dry run and then a live run, both complete.
DryThenLive ==
    /\ Cardinality(RunMarks) >= 2
    /\ Cardinality(RunMarks) = 2 => pc = "done"
    /\ logged[MarkOfRun(1)].ev = "run_dry"
    /\ logged[MarkOfRun(2)].ev = "run_live"

\* C10: a dry run and the live run that follows it from the same stores, no
\* remote call failing in either (the runs of SpecReliable), make the same
\* decisions in the same order.
C10_DryAndLiveDecideAlike ==
    DryThenLive => DecisionsOfRun(1) = DecisionsOfRun(2)

\* Such a pair of runs in which both propagators selected an item, the linked
\* pair was out of sync with the table record newer, and a comment of each
\* side was chosen for mirroring.
C10_Witness ==
    /\ DryThenLive
    /\ \A ev \in {"phase1_new_issue", "phase2_new_record", "pair", "status_to_jira",
                  "mirror_to_jira", "mirror_to_airtable"} :
          \E i \in 1..Len(DecisionsOfRun(2)) : DecisionsOfRun(2)[i].ev = ev
    /\ jira[IndexOfKey(jira, "PROJ-8")].status = "Plan"

\* ------------------------------------------------------ creation propagators

\* The action records of the running invocation: those main_logic has
\* collected and those the running phase has appended so far.
RunActions == overall_actions_log \o actions_log

\* The key and the id are linked to each other in the shared mappings.
Linked(jira_key, airtable_id) ==
    /\ jira_key \in DOMAIN jira_key_to_airtable_id
    /\ jira_key_to_airtable_id[jira_key] = airtable_id
    /\ airtable_id \in DOMAIN airtable_id_to_jira_key
    /\ airtable_id_to_jira_key[airtable_id] = jira_key

\* C11: when phase 3 starts, every issue phase 2 created in this run for a
\* record is linked to that record in both directions of the shared mappings.
C11_Phase2LinkRegistered ==
    (pc = "phase3" /\ idx = 1)
    => \A i \in 1..Len(overall_actions_log) :
          LET e == overall_actions_log[i]
          IN  (e.phase = 2 /\ e.new_jira_key # None /\ IndexOfKey(jira, e.new_jira_key) # 0)
              => Linked(e.new_jira_key, e.airtable_id)

\* C12: the step of phase 1 that creates a record for an issue leaves the issue
\* and the new record linked in both directions before the next issue is
\* looked at; and the link stays for the rest of the run, phase 3 included.
C12_Phase1LinkRegistered ==
    /\ [][ (pc = "phase1" /\ Len(airtable') = Len(airtable) + 1)
           => LET jira_key == all_jira_issues[idx].key
                  new_id == airtable'[Len(airtable')].id
              IN  /\ jira_key \in DOMAIN jira_key_to_airtable_id'
                  /\ jira_key_to_airtable_id'[jira_key] = new_id
                  /\ new_id \in DOMAIN airtable_id_to_jira_key'
                  /\ airtable_id_to_jira_key'[new_id] = jira_key
                  /\ idx' = idx + 1 ]_vars
    /\ [](\A i \in 1..Len(RunActions) :
             LET e == RunActions[i]
             IN  ( /\ e.phase = 1
                   /\ e.new_airtable_id # None
                   /\ IndexOfId(airtable, e.new_airtable_id) # 0 )
                 => Linked(e.jira_key, e.new_airtable_id))

\* Phase 3 of a live run starts with the link of PROJ-9 to the record phase 1
\* created for it in the mappings.
C12_Witness ==
    /\ pc = "phase3"
    /\ idx = 1
    /\ ~cfg.dry
    /\ runs = 1
    /\ IndexOfId(airtable, FreshRecordId(1)) # 0
    /\ Linked("PROJ-9", FreshRecordId(1))

\* C13: when phase 3 has gone through the mapping, the status chunk has run for
\* every pair of the mapping, the pairs linked by a propagator earlier in the
\* run included.
C13_EveryMappedPairReconciled ==
    (pc \in {"sprints", "report", "done"} /\ cfg.phase3 /\ RunMarks # {})
    => \A k \in DOMAIN jira_key_to_airtable_id : InRunLog("pair", k)

\* Phase 1 is about to look at an issue of the snapshot.
Phase1Examines == pc = "phase1" /\ cfg.phase1 /\ idx <= Len(all_jira_issues)
Phase1Issue == all_jira_issues[idx]

\* The issue phase 1 looks at is linked, is the intake form, or is unlinked
\* with a title that already starts with the prefix.
Phase1Ineligible ==
    \/ Phase1Issue.key \in DOMAIN jira_key_to_airtable_id
    \/ Phase1Issue.key = JIRA_CRO_INTAKE_FORM_KEY
    \/ /\ Len(Phase1Issue.summary) > 0
       /\ Phase1Issue.summary[1] = JIRA_NOT_EVALUATED_PREFIX_CONST

\* C14: the phase-1 step over a linked issue, the intake form, or an unlinked
\* issue whose title already has the prefix changes nothing in the tracker,
\* creates no record, adds no link and appends no action record.
C14_IneligibleIssuesUntouched ==
    [][ (Phase1Examines /\ Phase1Ineligible)
        => UNCHANGED <<jira, airtable, created, mapVars, actions_log, all_jira_issues>> ]_vars

\* Phase 1 of a live run has passed over all three kinds: the linked PROJ-8,
\* the intake form PROJ-7 and the prefixed, unlinked PROJ-9.
C14_Witness ==
    /\ pc = "phase2"
    /\ idx = 1
    /\ cfg.phase1
    /\ ~cfg.dry
    /\ overall_actions_log = <<>>
    /\ "PROJ-8" \in DOMAIN jira_key_to_airtable_id
    /\ "PROJ-9" \notin DOMAIN jira_key_to_airtable_id
    /\ IndexOfKey(all_jira_issues, "PROJ-7") # 0
    /\ LET i == IndexOfKey(all_jira_issues, "PROJ-9")
       IN  i # 0 /\ all_jira_issues[i].summary[1] = JIRA_NOT_EVALUATED_PREFIX_CONST

\* The description holds the line.
HasLine(description, line) == \E j \in 1..Len(description) : description[j] = line

\* C15: the phase-1 step that creates a record for issue K with title T creates
\* one record whose cross-reference is K and whose title is the prefix
\* followed by T, leaves the issue titled the prefix followed by T, and writes
\* into the issue's description the new record id and the experiment id
\* derived from T.
C15_Phase1CreatesPrefixedRecord ==
    [][ (Phase1Examines /\ Len(airtable') = Len(airtable) + 1
         /\ faultsLeft' = faultsLeft)
        => LET K == Phase1Issue.key
               T == Phase1Issue.summary
               record == airtable'[Len(airtable')]
               issue == jira'[IndexOfKey(jira', K)]
           IN  /\ record.fields[AIRTABLE_JIRA_KEY_FIELD] = K
               /\ record.fields[AIRTABLE_IDEA_NAME_FIELD]
                     = <<JIRA_NOT_EVALUATED_PREFIX_CONST>> \o T
               /\ issue.summary = <<JIRA_NOT_EVALUATED_PREFIX_CONST>> \o T
               /\ HasLine(issue.description, RecLine(record.id))
               /\ HasLine(issue.description, ExpLine(get_experiment_wxx_txx_id(T)))
               /\ T = <<"w2t3", "checkout", "flow">>
                  => HasLine(issue.description, ExpLine("W2T3")) ]_vars

Phase2Examines == pc = "phase2" /\ cfg.phase2 /\ idx <= Len(all_airtable_records)
Phase2Record == all_airtable_records[idx]
Phase2RecordLinked == Phase2Record.id \in DOMAIN airtable_id_to_jira_key
Phase2RecordAllowed ==
    /\ AIRTABLE_STATUS_FIELD \in DOMAIN Phase2Record.fields
    /\ Phase2Record.fields[AIRTABLE_STATUS_FIELD] \in AIRTABLE_STATUSES_FOR_JIRA_CREATION_LIST
Phase2RecordUntitled ==
    AIRTABLE_HEADLINE_FIELD \in DOMAIN Phase2Record.fields
        => Len(Phase2Record.fields[AIRTABLE_HEADLINE_FIELD]) = 0

\* C17: a phase-2 step creates an issue only for an unlinked record with an
\* allow-listed status and a non-empty title; for an unlinked allow-listed
\* record without a title it appends an action record with an error and
\* creates nothing; for a linked record or one whose status is not
\* allow-listed it changes nothing and appends no action record.
C17_Phase2Eligibility ==
    [][ Phase2Examines
        => /\ Len(jira') > Len(jira)
              => ~Phase2RecordLinked /\ Phase2RecordAllowed /\ ~Phase2RecordUntitled
           /\ (~Phase2RecordLinked /\ Phase2RecordAllowed /\ Phase2RecordUntitled)
              => /\ UNCHANGED <<jira, airtable, created, mapVars>>
                 /\ Len(actions_log') = Len(actions_log) + 1
                 /\ actions_log'[Len(actions_log')].airtable_id = Phase2Record.id
                 /\ actions_log'[Len(actions_log')].error # None
                 /\ actions_log'[Len(actions_log')].new_jira_key = None
           /\ (Phase2RecordLinked \/ ~Phase2RecordAllowed)
              => UNCHANGED <<jira, airtable, created, mapVars, actions_log>> ]_vars

\* Phase 2 of a live run has ended: the linked recA was passed over and the
\* untitled, allow-listed recB got an action record with an error and no
\* issue.
C17_Witness ==
    /\ pc = "phase3"
    /\ idx = 1
    /\ ~cfg.dry
    /\ runs = 1
    /\ "recA" \in DOMAIN airtable_id_to_jira_key
    /\ created.key = 0
    /\ \E i \in 1..Len(overall_actions_log) :
          /\ overall_actions_log[i].phase = 2
          /\ overall_actions_log[i].airtable_id = "recB"
          /\ overall_actions_log[i].error = "Missing headline in Airtable."
    /\ \A i \in 1..Len(overall_actions_log) :
          overall_actions_log[i].phase = 2 => overall_actions_log[i].airtable_id # "recA"

\* The issue with the key, as the tracker holds it after the step.
IssueAfter(key) == jira'[IndexOfKey(jira', key)]

AppendsOne == Len(actions_log') = Len(actions_log) + 1
Appended == actions_log'[Len(actions_log')]

\* The record phase 2 looks at, as the table holds it after the step.
Phase2RecordAfter == airtable'[IndexOfId(airtable', Phase2Record.id)]

\* C19: a phase-2 step that created the issue and in which a later remote call
\* (the status-set step or the write-back) failed appends the item's action
\* record with the new key, the issue is in the tracker, the failure is on the
\* record (its error, or the status line of its actions), the write-back is
\* still made when only the status-set step failed, and the loop goes on with
\* the next record.
C19_Phase2LateFailureKeepsGoing ==
    [][ (Phase2Examines /\ Len(jira') = Len(jira) + 1 /\ faultsLeft' < faultsLeft)
        => /\ AppendsOne
           /\ Appended.airtable_id = Phase2Record.id
           /\ Appended.new_jira_key # None
           /\ IndexOfKey(jira', Appended.new_jira_key) # 0
           /\ \/ Appended.error # None
              \/ \E j \in 1..Len(Appended.actions) :
                    Appended.actions[j] \in {"Jira: ERROR setting status",
                                             "Jira: WARNING - No transition found"}
           /\ (cfg.airtable_updates /\ Appended.error = None)
              => Get(Phase2RecordAfter.fields, AIRTABLE_JIRA_KEY_FIELD)
                    = Appended.new_jira_key
           /\ pc' = pc
           /\ idx' = idx + 1 ]_vars

\* The phase's log after the step extends the log before it.
KeepsActionLog ==
    /\ Len(actions_log') >= Len(actions_log)
    /\ SubSeq(actions_log', 1, Len(actions_log)) = actions_log

\* C20: in the three phases, a step in which a remote call on the item failed
\* keeps the action records the phase has accumulated and leaves the batch
\* running: the phase goes on to its next item.
C20_ItemFailureNeverAbortsBatch ==
    [][ (pc \in {"phase1", "phase2", "phase3", "phase3_comments"}
         /\ faultsLeft' < faultsLeft)
        => /\ KeepsActionLog
           /\ overall_actions_log' = overall_actions_log
           /\ pc' \in {"phase1", "phase2", "phase3", "phase3_comments"}
           /\ idx' \in {idx, idx + 1} ]_vars

\* ------------------------------------------------- the reconciliation engine

\* The comment chunk is about to run for the pair of the preceding status step.
CommentChunkDue == pc = "phase3_comments"

\* The comments of the pair's record that no comment of the pair's issue is
\* tagged as a mirror of.
UnmirroredTableComments ==
    {i \in 1..Len(airtableComments) :
        /\ airtableComments[i].on = action_details.airtable_id
        /\ \A j \in 1..Len(jiraComments) :
              jiraComments[j].on = action_details.jira_key
              => \A t \in 1..Len(jiraComments[j].body) :
                    ~ /\ jiraComments[j].body[t].sys = "AirtableCommentID"
                      /\ jiraComments[j].body[t].id = airtableComments[i].id}

\* C21: the status step of a pair found in both snapshots is always followed by
\* the comment step of the same pair, also when a remote call of the status
\* chunk failed; after a status chunk that recorded an error the comment chunk
\* mirrors every comment it would have mirrored otherwise; the comment step is
\* always followed by the next pair, also when one of its remote calls failed,
\* and drops no action record; after the last pair the sprint chunk starts,
\* and it handles one group at every step.
C21_ChunkFailuresAreIsolated ==
    [][ /\ ReconcilesPair => (pc' = "phase3_comments" /\ idx' = idx)
        /\ (CommentChunkDue /\ action_details.error # None /\ cfg.comments /\ ~cfg.dry
            /\ faultsLeft' = faultsLeft)
           => Len(jiraComments') = Len(jiraComments) + Cardinality(UnmirroredTableComments)
        /\ CommentChunkDue
           => (pc' = "phase3" /\ idx' = idx + 1 /\ Len(actions_log') >= Len(actions_log))
        /\ (pc = "phase3" /\ cfg.phase3 /\ idx > Len(key_order)) => pc' = "sprints"
        /\ (pc = "sprints" /\ pc' = "sprints")
           => /\ idx' = idx + 1
              /\ Len(logged') = Len(logged) + 1
              /\ logged'[Len(logged')].ev = "sprint" ]_vars

\* A live run has ended in which the status chunk of the pair PROJ-8 / recA
\* failed, and yet the pair's Airtable comment was mirrored to Jira and the
\* sprint chunk handled the pair's group.
C21_Witness ==
    /\ pc = "done"
    /\ ~cfg.dry
    /\ runs = 1
    /\ \E i \in 1..Len(overall_actions_log) :
          /\ overall_actions_log[i].phase = 3
          /\ overall_actions_log[i].jira_key = "PROJ-8"
          /\ overall_actions_log[i].error
                \in {"Airtable Status Update Failed", "Jira Transition Failed",
                     "Status Sync Failed"}
    /\ InRunLog("added_jira_comment", "PROJ-8")
    /\ InRunLog("sprint", "W10")

\* ------------------------------------------------------------ store access

\* The step is the start of a run whose clients could not be initialised.
AccessFails ==
    /\ Len(logged') > Len(logged)
    /\ logged'[Len(logged')].ev = "init_failed"

\* The current run is one whose clients could not be initialised.
RunWithoutAccess == RunLog # <<>> /\ RunLog[1].ev = "init_failed"

\* C22: the start of a run whose clients cannot be initialised ends the run at
\* once: the snapshots stay empty, the mappings stay empty, no store changes, no
\* action record exists; and such a run logs nothing further, so that no phase
\* step is part of it.
C22_NoAccessEndsRun ==
    /\ [][ AccessFails
           => /\ pc' = "done"
              /\ UNCHANGED storeVars
              /\ all_jira_issues' = <<>>
              /\ all_airtable_records' = <<>>
              /\ jira_key_to_airtable_id' = EmptyMap
              /\ airtable_id_to_jira_key' = EmptyMap
              /\ overall_actions_log' = <<>>
              /\ actions_log' = <<>> ]_vars
    /\ [](RunWithoutAccess
          => /\ pc = "done"
             /\ Len(RunLog) = 1
             /\ all_jira_issues = <<>>
             /\ all_airtable_records = <<>>
             /\ DOMAIN jira_key_to_airtable_id = {}
             /\ overall_actions_log = <<>>
             /\ actions_log = <<>>)

\* The second run, a live one after a live run that changed the stores, could
\* not initialise its clients and has ended.
C22_Witness ==
    /\ pc = "done"
    /\ runs = 2
    /\ ~cfg.dry
    /\ RunWithoutAccess
    /\ IndexOfId(airtable, FreshRecordId(1)) # 0

\* ------------------------------------------------------------ the action log

\* Two action records are about the same item of the same phase.
SameItem(a, b) ==
    a.phase = b.phase /\ a.jira_key = b.jira_key /\ a.airtable_id = b.airtable_id

\* C23: among the action records of a run, those already handed to main_logic
\* and those of the phase in progress, no two are about the same item of the
\* same phase.
C23_OneActionRecordPerItem ==
    \A i, j \in 1..Len(RunActions) :
       i # j => ~SameItem(RunActions[i], RunActions[j])

\* ------------------------------------------------------ the description codec

\* The number of metadata block headers in a description.
HeaderCount(description) ==
    Cardinality({i \in 1..Len(description) : description[i].kind = "hdr"})

\* The issue at position i after the step is new or has a new description.
DescriptionWritten(i) ==
    LET old == IndexOfKey(jira, jira'[i].key)
    IN  old = 0 \/ jira[old].description # jira'[i].description

\* C24: every description that a step of phase 1 or phase 2 writes to the
\* tracker holds at most one metadata block, whatever description the issue
\* had before.
C24_AtMostOneMetadataBlock ==
    [][ (pc = "phase1" \/ pc = "phase2")
        => (\A i \in 1..Len(jira') :
               DescriptionWritten(i) => HeaderCount(jira'[i].description) <= 1) ]_vars

\* What parse_metadata_from_jira_description reads from the issue's description
\* after the step.
MetadataAfter(key) == parse_metadata_from_jira_description(IssueAfter(key).description)

\* C25: the description phase 2 renders for the issue it creates parses back
\* to the record's id, the record's experiment id (none when the record has
\* none) and the record's URL; the description phase 1 writes after creating a
\* record, over a description that held no metadata block, parses back to the
\* new record's id, the experiment id of the title and the new record's URL.
C25_MetadataRoundTrip ==
    [][ /\ (Phase2Examines /\ Len(jira') = Len(jira) + 1)
           => LET m == MetadataAfter(Appended.new_jira_key)
              IN  /\ m.airtable_record_id = Phase2Record.id
                  /\ m.experiment_id
                        = Get(Phase2Record.fields, AIRTABLE_EXPERIMENT_ID_FIELD)
                  /\ m.airtable_url = UrlLine(Phase2Record.id).val
        /\ (Phase1Examines /\ Len(airtable') = Len(airtable) + 1
            /\ HeaderCount(Phase1Issue.description) = 0
            /\ IssueAfter(Phase1Issue.key).description # Phase1Issue.description)
           => LET m == MetadataAfter(Phase1Issue.key)
                  new_id == airtable'[Len(airtable')].id
              IN  /\ m.airtable_record_id = new_id
                  /\ m.experiment_id = get_experiment_wxx_txx_id(Phase1Issue.summary)
                  /\ m.airtable_url = UrlLine(new_id).val ]_vars

\* The lines of the first metadata block of a description that holds two: from
\* the first header up to the line before the second header.
FirstBlock(description) ==
    LET headers == {i \in 1..Len(description) : description[i].kind = "hdr"}
        h1 == FirstIndex(headers)
        h2 == FirstIndex(headers \ {h1})
    IN  SubSeq(description, h1, h2 - 1)

\* The value of the block's line of that kind, None when it has none.
FieldOfBlock(block, kind) ==
    LET i == FirstIndex({j \in 1..Len(block) : block[j].kind = kind})
    IN  IF i = 0 THEN None ELSE block[i].val

\* C26: when the resolver reads an issue whose description holds two stacked
\* metadata blocks, the parsed record id, experiment id and URL are those of
\* the first block, None where the first block has no such line; so an issue
\* whose first block names no record is not linked by this step.
C26_FirstBlockWins ==
    [][ (pc = "resolve_issues" /\ idx <= Len(all_jira_issues)
         /\ HeaderCount(all_jira_issues[idx].description) >= 2)
        => LET description == all_jira_issues[idx].description
               m == parse_metadata_from_jira_description(description)
               first == FirstBlock(description)
           IN  /\ m.airtable_record_id = FieldOfBlock(first, "rec")
               /\ m.experiment_id = FieldOfBlock(first, "exp")
               /\ m.airtable_url = FieldOfBlock(first, "url")
               /\ FieldOfBlock(first, "rec") = None => UNCHANGED mapVars ]_vars

\* The fields of the description table that hold plain text, not a reference
\* to another table.
NonReferenceFields ==
    {AIRTABLE_TO_JIRA_DESC_TABLE_MAP[i][1] : i \in 1..Len(AIRTABLE_TO_JIRA_DESC_TABLE_MAP)}
    \ {AIRTABLE_COUNTRY_FIELD, "Page type", "Primary metric", "Platform"}

\* C27: the description phase 2 renders for the issue it creates parses back
\* to the record's non-reference fields: a field the record has comes back
\* with its value, as it is or as the renderer escapes it; a field the record
\* has not does not come back.
C27_DescriptionRoundTrip ==
    [][ (Phase2Examines /\ Len(jira') = Len(jira) + 1)
        => LET parsed == parse_jira_description_table_to_airtable_fields(
                            IssueAfter(Appended.new_jira_key).description)
               fields == Phase2Record.fields
           IN  \A n \in NonReferenceFields :
                  IF n \in DOMAIN fields
                  THEN /\ n \in DOMAIN parsed
                       /\ parsed[n] \in {fields[n], SanitizeCell(fields[n])}
                  ELSE n \notin DOMAIN parsed ]_vars

\* --------------------------------------------------------- the status mappings

\* The tracker statuses the inverse mapping is defined on.
InverseDomain ==
    {STATUS_MAPPING_JIRA_TO_AIRTABLE[i][1] : i \in 1..Len(STATUS_MAPPING_JIRA_TO_AIRTABLE)}

\* C28: mapping a tracker status to its table label and back gives the status
\* again, for every status the inverse mapping is defined on; "Backlog", which
\* both "Idea: Evaluated" and "Idea: Backlog" map to, maps back to
\* "Idea: Backlog"; and a status the status step has just written to the table
\* is the label of the issue's status.
C28_InverseMappingConsistent ==
    /\ \A j \in InverseDomain :
          DictGet(STATUS_MAPPING_AIRTABLE_TO_JIRA,
                  DictGet(STATUS_MAPPING_JIRA_TO_AIRTABLE, j)) = j
    /\ DictGet(STATUS_MAPPING_AIRTABLE_TO_JIRA, "Idea: Evaluated") = "Backlog"
    /\ DictGet(STATUS_MAPPING_AIRTABLE_TO_JIRA, "Idea: Backlog") = "Backlog"
    /\ DictGet(STATUS_MAPPING_JIRA_TO_AIRTABLE, "Backlog") = "Idea: Backlog"
    /\ (pc = "phase3_comments" /\ ~cfg.dry /\ action_details.error = None
        /\ Len(action_details.actions) = 1
        /\ action_details.actions[1] = "Airtable: Plan to update status.")
       => LET record == airtable[IndexOfId(airtable, action_details.airtable_id)]
              issue == jira[IndexOfKey(jira, action_details.jira_key)]
          IN  DictGet(STATUS_MAPPING_AIRTABLE_TO_JIRA, record.fields[AIRTABLE_STATUS_FIELD])
                 = issue.status

\* The status step of a live run has just resolved the ambiguity: the record
\* recA was "Idea: Evaluated", its issue PROJ-8 is in "Backlog" and newer, and
\* the record is now "Idea: Backlog".
C28_Witness ==
    /\ pc = "phase3_comments"
    /\ ~cfg.dry
    /\ action_details.jira_key = "PROJ-8"
    /\ action_details.error = None
    /\ LET r == IndexOfId(all_airtable_records, "recA")
       IN  r # 0 /\ Get(all_airtable_records[r].fields, AIRTABLE_STATUS_FIELD) = "Idea: Evaluated"
    /\ jira[IndexOfKey(jira, "PROJ-8")].status = "Backlog"
    /\ airtable[IndexOfId(airtable, "recA")].fields[AIRTABLE_STATUS_FIELD] = "Idea: Backlog"

\* ------------------------------------------------------------ sprint grouping

\* The step looks a sprint up, creates one or adds issues to one.
SprintActivity ==
    \/ sprints' # sprints
    \/ sprintIssues' # sprintIssues
    \/ created'.sprint # created.sprint
    \/ Len(logged') > Len(logged) /\ logged'[Len(logged')].ev = "sprint"

\* C29: no step looks a sprint up, creates one or adds an issue to one unless
\* the sprint flag is on and a board id is configured; with the flag on and no
\* board id, the sprint chunk logs the missing setting, does nothing to the
\* board and phase 3 returns its action log to the run.
C29_SprintGroupingIsGated ==
    [][ /\ SprintActivity => (cfg.sprints /\ JIRA_BOARD_ID_CONFIG # "")
        /\ (pc = "sprints" /\ cfg.sprints /\ JIRA_BOARD_ID_CONFIG = "")
           => /\ ~SprintActivity
              /\ logged' = Append(logged, Event("no_board_id", None, None))
              /\ pc' = "report"
              /\ overall_actions_log' = overall_actions_log \o actions_log ]_vars

\* A live run with the flag on and no board id has left the sprint chunk: pairs
\* with an experiment id were collected, the missing setting was logged, the
\* board is as it was and the phase's action record reached the run's log.
C29_Witness ==
    /\ pc = "report"
    /\ ~cfg.dry
    /\ cfg.sprints
    /\ JIRA_BOARD_ID_CONFIG = ""
    /\ SprintGroupNames(issues_to_sprint) = <<"W10", "W2">>
    /\ InRunLog("no_board_id", None)
    /\ ~ \E i \in 1..Len(logged) : logged[i].ev = "sprint"
    /\ sprintIssues = {}
    /\ overall_actions_log # <<>>

\* The sprint chunk is about to handle a group.
SprintGroupDue ==
    /\ pc = "sprints"
    /\ idx <= Len(SprintGroupsDue(JIRA_BOARD_ID_CONFIG, issues_to_sprint))

DueGroupName == SprintGroupsDue(JIRA_BOARD_ID_CONFIG, issues_to_sprint)[idx]

\* The reconciled issues of this run whose title gives the group's name.
DueGroupKeys ==
    {issues_to_sprint[i].key :
        i \in {j \in 1..Len(issues_to_sprint) :
                  LET wxx_id == get_experiment_wxx_txx_id(issues_to_sprint[j].summary)
                  IN  wxx_id # None /\ SprintNameOf(wxx_id) = DueGroupName}}

\* The board's sprints of that name (in any case) that are not closed.
OpenSprintsNamed(name) ==
    {i \in 1..Len(sprints) : Lower(sprints[i].name) = Lower(name)
                             /\ sprints[i].state # "closed"}

SprintsOfIssue(key) == {p[1] : p \in {q \in sprintIssues : q[2] = key}}

\* C30: a sprint step of a live run in which no call fails adds every
\* reconciled issue of the group, and nothing else, to one sprint: the first
\* sprint of the board that has the group's W<digits> name and is not closed,
\* which is left as it is, or, when there is none, a sprint created with that
\* name by this step; a step of a dry run changes nothing; no step creates more
\* than one sprint or creates one when an open one exists.  At any time an issue
\* is in at most one sprint, that sprint has the W<digits> name of the issue's
\* title, issues whose title has no experiment id are in none, and no run has
\* created two sprints of one name.
C30_SprintGroupingByExperimentWeek ==
    /\ [][ SprintGroupDue
           => LET open == OpenSprintsNamed(DueGroupName)
                  first == CHOOSE i \in open : \A j \in open : i <= j
                  last == sprints'[Len(sprints')]
              IN  /\ Len(sprints') <= Len(sprints) + 1
                  /\ open # {} => sprints' = sprints
                  /\ cfg.dry => (sprints' = sprints /\ sprintIssues' = sprintIssues)
                  /\ (~cfg.dry /\ faultsLeft' = faultsLeft)
                     => IF open # {}
                        THEN sprintIssues' = sprintIssues
                                \cup {<<sprints[first].id, k>> : k \in DueGroupKeys}
                        ELSE /\ sprints' = Append(sprints, last)
                             /\ last.name = DueGroupName
                             /\ last.state # "closed"
                             /\ \A i \in 1..Len(sprints) : sprints[i].id # last.id
                             /\ sprintIssues' = sprintIssues
                                   \cup {<<last.id, k>> : k \in DueGroupKeys} ]_vars
    /\ [](/\ \A i \in 1..Len(jira) :
                LET wxx_id == get_experiment_wxx_txx_id(jira[i].summary)
                    in == SprintsOfIssue(jira[i].key)
                IN  /\ Cardinality(in) <= 1
                    /\ wxx_id = None => in = {}
                    /\ \A id \in in : \E n \in 1..Len(sprints) :
                          /\ sprints[n].id = id
                          /\ Lower(sprints[n].name) = Lower(SprintNameOf(wxx_id))
                          /\ sprints[n].state # "closed"
          /\ LET made == {n \in 1..Len(sprints) :
                              \E k \in 1..created.sprint : sprints[n].id = FreshSprintId(k)}
             IN  \A m, n \in made : m # n => sprints[m].name # sprints[n].name)

\* A live run has grouped its three pairs: the two issues of W10T1 are in the
\* open sprint "w10" that follows a closed "W10", the issue of w2t3 is in a
\* sprint "W2" created for it.
C30_Witness ==
    /\ pc = "report"
    /\ ~cfg.dry
    /\ Len(sprints) = 3
    /\ sprints[1].state = "closed"
    /\ sprints[3] = [id |-> FreshSprintId(1), name |-> "W2", state |-> "future"]
    /\ sprintIssues = {<<"sprint2", "PROJ-8">>, <<"sprint2", "PROJ-7">>,
                       <<FreshSprintId(1), "PROJ-9">>}

\* ------------------------------------------------- cross-reference registration

\* The resolver's first loop is about to read a record's cross-reference field.
ReadsCrossReference == pc = "resolve_records" /\ idx <= Len(all_airtable_records)
CrossReferenceRead == Get(all_airtable_records[idx].fields, AIRTABLE_JIRA_KEY_FIELD)

\* The text, once trimmed, has the shape of an issue key.
KeyShaped(v) == v \in {"PROJ-8", " PROJ-8 ", "PROJ-9"}

\* C31: the resolver's first loop changes the mappings only for a record whose
\* cross-reference, once trimmed, has the shape of an issue key, and then the
\* entries it writes link the trimmed key and the record; a cross-reference
\* that is absent, empty or a placeholder leaves both mappings as they are.
C31_OnlyKeyShapedCrossReferencesLink ==
    [][ ReadsCrossReference
        => LET v == CrossReferenceRead
               record_id == all_airtable_records[idx].id
           IN  IF KeyShaped(v)
               THEN \/ UNCHANGED <<jira_key_to_airtable_id, airtable_id_to_jira_key>>
                    \/ /\ jira_key_to_airtable_id'
                            = Put(jira_key_to_airtable_id,
                                  IF v = " PROJ-8 " THEN "PROJ-8" ELSE v, record_id)
                       /\ airtable_id_to_jira_key'
                            = Put(airtable_id_to_jira_key, record_id,
                                  IF v = " PROJ-8 " THEN "PROJ-8" ELSE v)
               ELSE UNCHANGED <<jira_key_to_airtable_id, airtable_id_to_jira_key>> ]_vars

\* The first loop has read a record with a placeholder and a record with a key
\* between blanks: only the second is linked, under the trimmed key.
C31_Witness ==
    /\ pc = "resolve_issues"
    /\ Len(all_airtable_records) = 2
    /\ Get(all_airtable_records[1].fields, AIRTABLE_JIRA_KEY_FIELD) = "TBD"
    /\ Get(all_airtable_records[2].fields, AIRTABLE_JIRA_KEY_FIELD) = " PROJ-8 "
    /\ DOMAIN airtable_id_to_jira_key = {"recB"}
    /\ airtable_id_to_jira_key["recB"] = "PROJ-8"
    /\ DOMAIN jira_key_to_airtable_id = {"PROJ-8"}

\* ------------------------------------------------------- repeated live runs

\* The issues the tracker created during the behaviour (phase 2 is the only
\* creator) whose description names the record: the issues created for it.
IssuesCreatedFor(record_id) ==
    {i \in 1..Len(jira) :
        /\ \E n \in 1..created.key : jira[i].key = FreshIssueKey(n)
        /\ HasLine(jira[i].description, RecLine(record_id))}

\* C32: at any time of any sequence of runs, failed fetches, status-sets and
\* write-backs included and with the write-back switched on or off, the
\* tracker holds at most one issue that phase 2 created for a given record.
C32_AtMostOneIssuePerRecord ==
    \A r \in 1..Len(airtable) : Cardinality(IssuesCreatedFor(airtable[r].id)) <= 1

\* The records the table created during the behaviour (phase 1 is the only
\* creator) whose cross-reference is the key: the records created for the issue.
RecordsCreatedFor(jira_key) ==
    {i \in 1..Len(airtable) :
        /\ \E n \in 1..created.rec : airtable[i].id = FreshRecordId(n)
        /\ Get(airtable[i].fields, AIRTABLE_JIRA_KEY_FIELD) = jira_key}

\* C33: at any time of any sequence of runs, failed fetches, record creations
\* and description updates included, the table holds at most one record that
\* phase 1 created for a given issue.
C33_AtMostOneRecordPerIssue ==
    \A i \in 1..Len(jira) : Cardinality(RecordsCreatedFor(jira[i].key)) <= 1

\* A later live run whose table fetch failed has passed phase 1: PROJ-9, for
\* which an earlier run created a record and then failed to write the metadata
\* block, is linked to nothing in this run, and still has one record.
C33_Witness ==
    /\ pc = "phase2"
    /\ ~cfg.dry
    /\ runs = 2
    /\ all_airtable_records = <<>>
    /\ IndexOfKey(all_jira_issues, "PROJ-9") # 0
    /\ "PROJ-9" \notin DOMAIN jira_key_to_airtable_id
    /\ Cardinality(RecordsCreatedFor("PROJ-9")) = 1

\* The issue of the snapshot carries the prefix and the table holds no record
\* created for it.
HalfApplied(issue) ==
    /\ issue.key # JIRA_CRO_INTAKE_FORM_KEY
    /\ Len(issue.summary) > 0
    /\ issue.summary[1] = JIRA_NOT_EVALUATED_PREFIX_CONST
    /\ RecordsCreatedFor(issue.key) = {}

\* The second of two live runs has ended and one remote call has failed so far.
\* Under InitRepeat no title carries the prefix at first and a live run without
\* a failure gives every prefixed issue its record, so an issue that is
\* half-applied now was left so by the failure, in the first run, and no call
\* failed in the second.
ReliableRunAfterFailedRun ==
    /\ pc = "done"
    /\ runs = 2
    /\ logged[MarkOfRun(1)].ev = "run_live"
    /\ logged[MarkOfRun(2)].ev = "run_live"
    /\ faultsLeft = RepeatFaults - 1

\* C34: when a live run without a remote failure ends, every issue that the
\* run before it left with the prefix and without a record is linked to a
\* record.
C34_HalfAppliedIsRecovered ==
    ReliableRunAfterFailedRun
    => \A i \in 1..Len(all_jira_issues) :
          HalfApplied(all_jira_issues[i])
          => all_jira_issues[i].key \in DOMAIN jira_key_to_airtable_id

\* ------------------------------------------------ status reconciliation, again

\* The pair's tracker status is the one mapped from its table status.
PairAlreadyMapped ==
    /\ PairTableStatus # None
    /\ \E i \in 1..Len(STATUS_MAPPING_AIRTABLE_TO_JIRA) :
          /\ STATUS_MAPPING_AIRTABLE_TO_JIRA[i][1] = PairTableStatus
          /\ STATUS_MAPPING_AIRTABLE_TO_JIRA[i][2] = PairIssue.status

\* C35: the status step over a pair whose tracker status is the status mapped
\* from its table status changes neither store, whatever the two timestamps.
C35_MappedPairIsLeftAlone ==
    [][ (ReconcilesPair /\ PairAlreadyMapped) => UNCHANGED <<jira, airtable>> ]_vars

\* The engine has written the pair's tracker status, or its table status, in an
\* earlier run: the timestamp of that side in this run's snapshot is one the
\* stores gave out during the behaviour (the first ones end at MaxTime), and
\* where only phase 3 runs a status push is the only write there is.
PushedToTracker == ExternalUpdatedAt > MaxTime
PushedToTable == TableUpdatedAt > MaxTime

\* C36: the status step over a pair whose status an earlier run has pushed, in
\* either direction, changes neither store.
C36_PushedPairIsInSync ==
    [][ (ReconcilesPair /\ (PushedToTracker \/ PushedToTable))
        => UNCHANGED <<jira, airtable>> ]_vars

\* ----------------------------------------------------------------- quiescence

\* The live runs started so far.
LiveRuns == Cardinality({i \in 1..Len(logged) : logged[i].ev = "run_live"})

\* C37: with no remote failure and no edit from outside, the third live run
\* over the same two stores, and every live run after it, changes no record,
\* issue or comment: two live runs bring the stores to rest.
C37_StoresSettle ==
    [][ (LiveRuns >= 3 /\ ~cfg.dry /\ pc # "idle" /\ pc # "done")
        => UNCHANGED <<jira, airtable, jiraComments, airtableComments>> ]_vars

\* The third live run is over.  The first two have created a record for PROJ-9
\* and an issue for recB, moved recA from "Idea: Evaluated" to "Idea: Backlog",
\* mirrored the comment 10001 to the table and that mirror back to the tracker.
C37_Witness ==
    /\ pc = "done"
    /\ ~cfg.dry
    /\ LiveRuns = 3
    /\ created.rec = 1
    /\ created.key = 1
    /\ Len(airtableComments) = 1
    /\ Len(jiraComments) = 2
    /\ jiraComments[1].id = "10001"
    /\ extract_sync_id(airtableComments[1].body, "JiraCommentID") = "10001"
    /\ extract_sync_id(jiraComments[2].body, "AirtableCommentID") = airtableComments[1].id
    /\ airtable[IndexOfId(airtable, "recA")].fields[AIRTABLE_STATUS_FIELD] = "Idea: Backlog"
    /\ clock > MaxTime + 4

\* --------------------------------------------------- origin tags of mirrors

\* The comments that comment reconciliation has added to each side.
MirrorsOnJira ==
    {i \in 1..Len(jiraComments) :
        \E n \in 1..created.jc : jiraComments[i].id = FreshJiraCommentId(n)}

MirrorsOnAirtable ==
    {i \in 1..Len(airtableComments) :
        \E n \in 1..created.ac : airtableComments[i].id = FreshAirtableCommentId(n)}

\* The comment is the text of one comment of the other side followed by the
\* tag of that comment, and the tag read back from it names that comment.
MirrorsOne(c, others, prefix) ==
    \E k \in 1..Len(others) :
       /\ c.body = others[k].body \o <<Tag(prefix, others[k].id)>>
       /\ extract_sync_id(c.body, prefix) = others[k].id

\* No two comments of the sequence are tagged with the same origin.
OriginsAreDistinct(comments, prefix) ==
    \A i, j \in 1..Len(comments) :
       ( /\ i # j
         /\ extract_sync_id(comments[i].body, prefix) # None )
       => extract_sync_id(comments[i].body, prefix)
             # extract_sync_id(comments[j].body, prefix)

\* C38: every comment created by comment reconciliation carries the origin tag
\* of exactly the comment it mirrors, and at every point of any number of
\* successive live runs each side holds at most one comment tagged with a given
\* comment identifier of the other side.
C38_MirrorsCarryTheirOrigin ==
    /\ \A i \in MirrorsOnJira :
          MirrorsOne(jiraComments[i], airtableComments, "AirtableCommentID")
    /\ \A i \in MirrorsOnAirtable :
          MirrorsOne(airtableComments[i], jiraComments, "JiraCommentID")
    /\ OriginsAreDistinct(jiraComments, "AirtableCommentID")
    /\ OriginsAreDistinct(airtableComments, "JiraCommentID")

\* Three live runs are over; the table comment comA and the mirror of 10001
\* each have their one mirror on the tracker, 10001 has its one mirror on the
\* table.
C38_Witness ==
    /\ pc = "done"
    /\ ~cfg.dry
    /\ LiveRuns = 3
    /\ Cardinality(MirrorsOnJira) = 2
    /\ Cardinality(MirrorsOnAirtable) = 1
    /\ \E i \in MirrorsOnJira :
          extract_sync_id(jiraComments[i].body, "AirtableCommentID") = "comA"
    /\ \E i \in MirrorsOnJira :
          extract_sync_id(jiraComments[i].body, "AirtableCommentID")
             = FreshAirtableCommentId(1)
    /\ \E i \in MirrorsOnAirtable :
          extract_sync_id(airtableComments[i].body, "JiraCommentID") = "10001"

====
